---------------------------- MODULE Spec2Model ----------------------------
(***************************************************************************)
(* Model of the browser-side helpers of astro-auth (src/src/client.ts):    *)
(* __getCsrfToken, __normalizePathOnly, __safeRedirect, signIn, signOut.   *)
(*                                                                         *)
(* Strings are sequences of lexical tokens: the delimiters ":" "/" "?"     *)
(* "#" "=" "&" are tokens of their own, every other token is a word (a run *)
(* of URL-safe characters: letters, digits, "-", ".", "_").  A word made   *)
(* of digits only is listed in DigitWords.  String concatenation is \o,    *)
(* the empty string is <<>>.  The words "." and ".." (dot segments), "\",  *)
(* "@", "[" and white space do not occur in the strings of this model.     *)
(*                                                                         *)
(* JavaScript values are tagged records: Undefined, Null, Str(s), Bool(b). *)
(***************************************************************************)
EXTENDS Integers, Sequences, FiniteSets, TLC

-----------------------------------------------------------------------------
(* JavaScript values *)

Undefined == [t |-> "undefined"]

Null == [t |-> "null"]

Str(s) == [t |-> "string", v |-> s]

Bool(b) == [t |-> "boolean", v |-> b]

\* the ?? operator: the right operand when the left is null or undefined
Nullish(a, d) == IF a.t \in {"undefined", "null"} THEN d ELSE a

\* JavaScript truthiness of a value
Truthy(a) ==
  CASE a.t = "undefined" -> FALSE
    [] a.t = "null" -> FALSE
    [] a.t = "string" -> a.v # <<>>
    [] a.t = "boolean" -> a.v
    [] a.t = "number" -> a.v # 0
    [] OTHER -> TRUE

\* `${x}` / String(x): the string a value is coerced to
StringOf(a) ==
  CASE a.t = "undefined" -> <<"undefined">>
    [] a.t = "null" -> <<"null">>
    [] a.t = "string" -> a.v
    [] a.t = "boolean" -> IF a.v THEN <<"true">> ELSE <<"false">>

\* obj?.key on an object modelled as a function from key to value
Get(obj, key) == IF key \in DOMAIN obj THEN obj[key] ELSE Undefined

\* { ...a, ...b }: the keys of both, b's value where both have the key
Spread(a, b) ==
  [k \in (DOMAIN a) \cup (DOMAIN b) |-> IF k \in DOMAIN b THEN b[k] ELSE a[k]]

\* a destructuring whose rest keeps every field
Omit_KeepsAll(obj, keys) == obj

\* const { k1: _, ...rest } = obj
Omit(obj, keys) == [k \in (DOMAIN obj) \ keys |-> obj[k]]

-----------------------------------------------------------------------------
(* Strings *)

Delims == {":", "/", "?", "#", "=", "&"}

DigitWords == {"80", "443", "8080"}

\* String.prototype.includes for a one-character needle
Includes(s, c) == \E i \in 1..Len(s) : s[i] = c

\* index of the first occurrence of c in s, Len(s) + 1 when there is none
FirstIndex(s, c) ==
  IF ~Includes(s, c) THEN Len(s) + 1
  ELSE CHOOSE i \in 1..Len(s) : s[i] = c /\ \A j \in 1..(i - 1) : s[j] # c

\* the part of s before the first c (all of s when c does not occur)
Before(s, c) == SubSeq(s, 1, FirstIndex(s, c) - 1)

\* the part of s after the first c (empty when c does not occur)
After(s, c) == SubSeq(s, FirstIndex(s, c) + 1, Len(s))

\* the part of s from the first c on, c included (empty when c does not occur)
From(s, c) == SubSeq(s, FirstIndex(s, c), Len(s))

\* number of "/" tokens s starts with
LeadingSlashes(s) ==
  CHOOSE n \in 0..Len(s) :
    /\ \A i \in 1..n : s[i] = "/"
    /\ n < Len(s) => s[n + 1] # "/"

\* s without the "/" tokens it starts with
StripSlashes(s) == SubSeq(s, LeadingSlashes(s) + 1, Len(s))

-----------------------------------------------------------------------------
(* new URL(input, base): the WHATWG URL parser on token strings.  A parsed *)
(* URL is a record; valid = FALSE stands for the TypeError the constructor *)
(* throws.  qf carries the query and fragment cut off the input.           *)

SpecialSchemes == {"http", "https"}

DefaultPort(scheme) == IF scheme = "http" THEN <<"80">> ELSE <<"443">>

InvalidURL == [valid |-> FALSE]

NoBase == [valid |-> FALSE, none |-> TRUE]

\* a word that can start a URL: letters first, so not a number
IsSchemeWord(w) == w \notin Delims /\ w \notin DigitWords

MkURL(scheme, special, host, port, path, qf) ==
  [valid |-> TRUE, scheme |-> scheme, special |-> special,
   host |-> host, port |-> port, path |-> path,
   hasQuery |-> qf.hasQuery, query |-> qf.query,
   hasFragment |-> qf.hasFragment, fragment |-> qf.fragment]

\* host and port states: auth is the authority, pathPart what follows it
ParseHost(scheme, auth, pathPart, qf) ==
  IF ~(/\ Len(auth) >= 1 /\ IsSchemeWord(auth[1])
       /\ \/ Len(auth) = 1
          \/ Len(auth) = 2 /\ auth[2] = ":"
          \/ Len(auth) = 3 /\ auth[2] = ":" /\ auth[3] \in DigitWords)
    THEN InvalidURL
  ELSE MkURL(scheme, TRUE, <<auth[1]>>,
             IF Len(auth) = 3 /\ <<auth[3]>> # DefaultPort(scheme)
               THEN <<auth[3]>> ELSE <<>>,
             IF pathPart = <<>> THEN <<"/">> ELSE pathPart,
             qf)

\* authority state: rest is the input after the slashes that follow the scheme
ParseAuthority(scheme, rest, qf) ==
  ParseHost(scheme, Before(rest, "/"), From(rest, "/"), qf)

\* the directory of a path: the path up to its last "/"
Directory(path) ==
  SubSeq(path, 1, CHOOSE i \in 1..Len(path) :
                    path[i] = "/" /\ \A j \in (i + 1)..Len(path) : path[j] # "/")

\* relative state: rest has no scheme (or the base's scheme, already removed)
ParseRelative(rest, base, qf) ==
  IF ~base.valid THEN InvalidURL
  ELSE IF LeadingSlashes(rest) >= 2
    THEN ParseAuthority(base.scheme, StripSlashes(rest), qf)
  ELSE IF LeadingSlashes(rest) = 1
    THEN MkURL(base.scheme, TRUE, base.host, base.port, rest, qf)
  ELSE IF rest = <<>>
    THEN MkURL(base.scheme, TRUE, base.host, base.port, base.path,
               IF qf.hasQuery THEN qf
               ELSE [qf EXCEPT !.hasQuery = base.hasQuery, !.query = base.query])
  ELSE MkURL(base.scheme, TRUE, base.host, base.port,
             Directory(base.path) \o rest, qf)

\* scheme state done: the input started with scheme ":" and goes on with rest
ParseAfterScheme(scheme, rest, base, qf) ==
  IF scheme \notin SpecialSchemes
    THEN MkURL(scheme, FALSE, <<>>, <<>>, rest, qf)
  ELSE IF base.valid /\ base.scheme = scheme /\ LeadingSlashes(rest) < 2
    THEN ParseRelative(rest, base, qf)
  ELSE ParseAuthority(scheme, StripSlashes(rest), qf)

\* scheme start state: main is the input without its query and fragment
ParseMain(main, base, qf) ==
  IF Len(main) >= 2 /\ IsSchemeWord(main[1]) /\ main[2] = ":"
    THEN ParseAfterScheme(main[1], SubSeq(main, 3, Len(main)), base, qf)
    ELSE ParseRelative(main, base, qf)

\* the query cut off the input: noFragment is the input up to its first "#"
ParseQuery(noFragment, base, hasFragment, fragment) ==
  ParseMain(Before(noFragment, "?"), base,
            [hasQuery |-> Includes(noFragment, "?"),
             query |-> After(noFragment, "?"),
             hasFragment |-> hasFragment, fragment |-> fragment])

\* new URL(input, base); base is a parsed URL, or NoBase for new URL(input)
URLParse(input, base) ==
  ParseQuery(Before(input, "#"), base, Includes(input, "#"), After(input, "#"))

\* url.origin
Origin(u) ==
  IF ~u.special THEN <<"null">>
  ELSE <<u.scheme, ":", "/", "/">> \o u.host
       \o (IF u.port = <<>> THEN <<>> ELSE <<":">> \o u.port)

\* url.pathname
Pathname(u) == u.path

\* url.search: empty for a missing or empty query
Search(u) == IF u.hasQuery /\ u.query # <<>> THEN <<"?">> \o u.query ELSE <<>>

\* url.hash: empty for a missing or empty fragment
Hash(u) ==
  IF u.hasFragment /\ u.fragment # <<>> THEN <<"#">> \o u.fragment ELSE <<>>

\* url.href: the serialisation, which keeps an empty query or fragment
Href(u) ==
  (IF u.special THEN Origin(u) ELSE <<u.scheme, ":">>)
  \o u.path
  \o (IF u.hasQuery THEN <<"?">> \o u.query ELSE <<>>)
  \o (IF u.hasFragment THEN <<"#">> \o u.fragment ELSE <<>>)

-----------------------------------------------------------------------------
(* URLSearchParams *)

\* one name/value pair of a query string: the piece split at its first "="
Pair(piece) == <<Before(piece, "="), After(piece, "=")>>

RECURSIVE QueryPairs(_)
\* the name/value pairs of a query string (application/x-www-form-urlencoded
\* parsing): the pieces between "&", empty pieces skipped
QueryPairs(q) ==
  IF q = <<>> THEN <<>>
  ELSE (IF Before(q, "&") = <<>> THEN <<>> ELSE <<Pair(Before(q, "&"))>>)
       \o QueryPairs(After(q, "&"))

RECURSIVE SerializePairs(_)
\* the query string of a list of name/value pairs
SerializePairs(ps) ==
  IF ps = <<>> THEN <<>>
  ELSE ps[1][1] \o <<"=">> \o ps[1][2]
       \o (IF Len(ps) = 1 THEN <<>> ELSE <<"&">> \o SerializePairs(Tail(ps)))

\* the value of the first pair called name, or null
FirstValue(ps, name) ==
  IF \A i \in 1..Len(ps) : ps[i][1] # name THEN Null
  ELSE Str(ps[CHOOSE i \in 1..Len(ps) :
                ps[i][1] = name /\ \A j \in 1..(i - 1) : ps[j][1] # name][2])

\* url.searchParams.get(name)
SearchParamsGet(u, name) == FirstValue(QueryPairs(u.query), name)

RECURSIVE SetPair(_, _, _, _)
\* the pairs with name set to value: the first pair of that name gets the
\* value and the others of that name go; appended when there is none
SetPair(ps, name, value, done) ==
  IF ps = <<>> THEN (IF done THEN <<>> ELSE << <<name, value>> >>)
  ELSE IF ps[1][1] # name
    THEN <<ps[1]>> \o SetPair(Tail(ps), name, value, done)
  ELSE (IF done THEN <<>> ELSE << <<name, value>> >>)
       \o SetPair(Tail(ps), name, value, TRUE)

\* url.searchParams.set(name, value)
SearchParamsSet(u, name, value) ==
  [u EXCEPT !.hasQuery = TRUE,
            !.query = SerializePairs(SetPair(QueryPairs(u.query), name, value, FALSE))]

RECURSIVE SetAll(_, _)
\* for (const [k, v] of Object.entries(params)) url.searchParams.set(k, v)
SetAll(u, params) ==
  IF params = <<>> THEN u
  ELSE SetAll(SearchParamsSet(u, <<params[1][1]>>, <<params[1][2]>>), Tail(params))

-----------------------------------------------------------------------------
(* Promises, errors, responses *)

Pending == [state |-> "pending"]

Fulfilled(v) == [state |-> "fulfilled", value |-> v]

Rejected(e) == [state |-> "rejected", error |-> e]

\* what new URL(...) throws
InvalidUrlError == [name |-> "TypeError", message |-> "Invalid URL"]

\* what reading a property of null throws
NullPropertyError ==
  [name |-> "TypeError", message |-> "Cannot read properties of null"]

\* a JSON object value
Obj(f) == [t |-> "object", v |-> f]

\* a JSON number value
Num(n) == [t |-> "number", v |-> n]

\* res.ok
ResponseOk(res) == res.status \in 200..299

\* a fetch(...) call, as it is recorded in the log
FetchEvent(method, url, body) ==
  [op |-> "fetch", method |-> method, url |-> url, body |-> body]

\* form.submit() of a hidden form
SubmitEvent(method, action, fields) ==
  [op |-> "submit", method |-> method, url |-> action, body |-> fields]

\* window.location.assign(url)
AssignEvent(url) == [op |-> "assign", method |-> "", url |-> url, body |-> <<>>]

\* window.location.reload()
ReloadEvent == [op |-> "reload", method |-> "", url |-> <<>>, body |-> <<>>]

-----------------------------------------------------------------------------
(* window.location of the page the helpers run on *)

\* the window.location object of a page whose URL is u
WindowLocation(u) ==
  [href |-> Href(u), origin |-> Origin(u), pathname |-> Pathname(u),
   search |-> Search(u), hash |-> Hash(u)]

\* window.location.pathname + window.location.search + window.location.hash
CurrentPathOnly(loc) == loc.pathname \o loc.search \o loc.hash

\* the base of new URL(x, window.location.origin)
OriginBase(loc) == URLParse(loc.origin, NoBase)

-----------------------------------------------------------------------------
(* src/src/client.ts *)

\* the request __getCsrfToken issues
CsrfRequest(prefix) == FetchEvent("GET", prefix \o <<"/", "csrf">>, <<>>)

\* (json as { csrfToken?: string })?.csrfToken
TokenField(json) ==
  IF json.t = "object" THEN Get(json.v, "csrfToken") ELSE Undefined

\* the last check of __getCsrfToken, on the token field of the body
CheckedToken(token) ==
  IF token.t # "string" \/ Len(token.v) = 0
    THEN [ok |-> FALSE,
          error |-> [name |-> "Error", message |-> "Missing or invalid CSRF token"]]
    ELSE [ok |-> TRUE, token |-> token.v]

\* __getCsrfToken without its check of res.ok
getCsrfToken_NoStatusCheck(reply) ==
  IF reply.kind = "rejects" THEN [ok |-> FALSE, error |-> reply.error]
  ELSE IF ~reply.res.body.json
    THEN [ok |-> FALSE,
          error |-> [name |-> "Error",
                     message |-> "CSRF endpoint returned non-JSON response"]]
  ELSE CheckedToken(TokenField(reply.res.body.value))

\* __getCsrfToken parsing the body before it looks at the status
getCsrfToken_JsonFirst(reply) ==
  IF reply.kind = "rejects" THEN [ok |-> FALSE, error |-> reply.error]
  ELSE IF ~reply.res.body.json
    THEN [ok |-> FALSE,
          error |-> [name |-> "Error",
                     message |-> "CSRF endpoint returned non-JSON response"]]
  ELSE IF ~ResponseOk(reply.res)
    THEN [ok |-> FALSE,
          error |-> [name |-> "Error", message |-> "Failed to fetch CSRF token",
                     status |-> reply.res.status]]
  ELSE CheckedToken(TokenField(reply.res.body.value))

\* __getCsrfToken once the fetch has settled with reply: the token it
\* returns, or the error it throws
__getCsrfToken(reply) ==
  IF reply.kind = "rejects" THEN [ok |-> FALSE, error |-> reply.error]
  ELSE IF ~ResponseOk(reply.res)
    THEN [ok |-> FALSE,
          error |-> [name |-> "Error", message |-> "Failed to fetch CSRF token",
                     status |-> reply.res.status]]
  ELSE IF ~reply.res.body.json
    THEN [ok |-> FALSE,
          error |-> [name |-> "Error",
                     message |-> "CSRF endpoint returned non-JSON response"]]
  ELSE CheckedToken(TokenField(reply.res.body.value))

\* the body of __normalizePathOnly without its comparison of origins
PathOnlyOf_NoOriginCheck(u, loc) ==
  IF ~u.valid THEN CurrentPathOnly(loc)
  ELSE Pathname(u) \o Search(u) \o Hash(u)

\* the body of __normalizePathOnly, u being new URL(href, origin)
PathOnlyOf(u, loc) ==
  IF ~u.valid THEN CurrentPathOnly(loc)
  ELSE IF Origin(u) # loc.origin THEN CurrentPathOnly(loc)
  ELSE Pathname(u) \o Search(u) \o Hash(u)

__normalizePathOnly(href, loc) == PathOnlyOf(URLParse(href, OriginBase(loc)), loc)

\* the try block of __safeRedirect without its comparison of origins
SameOriginHrefOr_NoOriginCheck(u, fallbackPathOnly, loc) ==
  IF ~u.valid THEN fallbackPathOnly ELSE Href(u)

\* the try block of __safeRedirect, u being new URL(target, origin)
SameOriginHrefOr(u, fallbackPathOnly, loc) ==
  IF ~u.valid THEN fallbackPathOnly
  ELSE IF Origin(u) # loc.origin THEN fallbackPathOnly
  ELSE Href(u)

__safeRedirect(target, fallbackPathOnly, loc) ==
  IF ~Truthy(target) THEN fallbackPathOnly
  ELSE SameOriginHrefOr(URLParse(target.v, OriginBase(loc)), fallbackPathOnly, loc)

\* options?.prefix ?? '/api/auth'
DefaultPrefix == <<"/", "api", "/", "auth">>

isCredentials(providerId) == providerId = Str(<<"credentials">>)

isEmail(providerId) == providerId = Str(<<"email">>)

\* isSupportingReturn forgetting the email provider
isSupportingReturn_CredentialsOnly(providerId) == isCredentials(providerId)

isSupportingReturn(providerId) == isCredentials(providerId) \/ isEmail(providerId)

\* signInUrl sending every return-supporting provider to the callback endpoint
signInUrl_CallbackForEmail(prefix, providerId) ==
  IF isCredentials(providerId) \/ isEmail(providerId)
    THEN prefix \o <<"/", "callback", "/">> \o StringOf(providerId)
    ELSE prefix \o <<"/", "signin", "/">> \o StringOf(providerId)

signInUrl(prefix, providerId) ==
  IF isCredentials(providerId)
    THEN prefix \o <<"/", "callback", "/">> \o StringOf(providerId)
    ELSE prefix \o <<"/", "signin", "/">> \o StringOf(providerId)

\* url with every authorization parameter set, url being
\* new URL(signInUrl, origin); left alone where that threw
WithParams(url, authorizationParams) ==
  IF url.valid THEN SetAll(url, authorizationParams) ELSE url

\* new URL(signInUrl, window.location.origin) with the parameters set
urlWithParams(url, authorizationParams, loc) ==
  WithParams(URLParse(url, OriginBase(loc)), authorizationParams)

\* Object.fromEntries(Object.entries(opts).map(([k, v]) => [k, String(v)]))
Stringified(opts) == [k \in DOMAIN opts |-> StringOf(opts[k])]

\* the hidden inputs of the form: { csrfToken, callbackUrl, ...opts }
fields(csrfToken, callbackUrl, opts) ==
  Spread([csrfToken |-> csrfToken, callbackUrl |-> callbackUrl], Stringified(opts))

\* the body of the sign-in POST: { ...opts, csrfToken, callbackUrl }
signInBody(opts, csrfToken, callbackUrl) ==
  Spread(Stringified(opts), [csrfToken |-> csrfToken, callbackUrl |-> callbackUrl])

\* the body of the sign-out POST: { csrfToken, callbackUrl }
signOutBody(csrfToken, callbackUrl) ==
  [csrfToken |-> csrfToken, callbackUrl |-> callbackUrl]

\* await res.json().catch(() => ({})): the parsed body, {} when it is not JSON
JsonOrEmpty(res) == IF res.body.json THEN res.body.value ELSE Obj(<<>>)

\* redirect !== false || !isSupportingReturn || !error
shouldRedirect(redirect, supporting, error) ==
  redirect # Bool(FALSE) \/ ~supporting \/ ~Truthy(error)

\* the candidate preferring the URL the fetch was redirected to
candidate_RedirectedFirst(data, res) ==
  IF res.redirected THEN Str(res.url) ELSE Get(data.v, "url")

\* data.url ?? (res.redirected ? res.url : undefined)
candidate(data, res) ==
  Nullish(Get(data.v, "url"), IF res.redirected THEN Str(res.url) ELSE Undefined)

\* the reload test looking for a leading '#' only
needsReload_LeadingHashOnly(target) == target # <<>> /\ target[1] = "#"

\* target.includes('#')
needsReload(target) == Includes(target, "#")

\* the reload made before the assign
Navigate_ReloadFirst(target) ==
  (IF needsReload(target) THEN <<ReloadEvent>> ELSE <<>>) \o <<AssignEvent(target)>>

\* window.location.assign(target), then reload when the target has a hash
Navigate(target) ==
  <<AssignEvent(target)>> \o (IF needsReload(target) THEN <<ReloadEvent>> ELSE <<>>)

\* what one step of a flow does: where the flow is next, its locals, the
\* calls it made on the browser, and the state of the promise it returned
Step(pc_, call_, emit_, result_) ==
  [pc |-> pc_, call |-> call_, emit |-> emit_, result |-> result_]

\* the locals of signIn before its first await (lines 150-165)
SignInLocals(loc, providerId, options, authorizationParams) ==
  [fn |-> "signIn", providerId |-> providerId, options |-> options,
   authorizationParams |-> authorizationParams,
   redirect |-> Nullish(Get(options, "redirect"), Bool(TRUE)),
   callbackUrl |->
     __normalizePathOnly(Nullish(Get(options, "callbackUrl"), Str(loc.href)).v, loc),
   prefix |-> Nullish(Get(options, "prefix"), Str(DefaultPrefix)).v,
   opts |-> Omit(options, {"prefix", "callbackUrl", "redirect"}),
   isSupportingReturn |-> isSupportingReturn(providerId),
   signInUrl |->
     signInUrl(Nullish(Get(options, "prefix"), Str(DefaultPrefix)).v, providerId),
   signInUrlWithParams |-> <<>>, csrfToken |-> <<>>]

\* signIn's fetch flow up to its first await, url being the sign-in URL
\* with the authorization parameters set
SignInFetchBegin(c, url) ==
  IF ~url.valid THEN Step("done", c, <<>>, Rejected(InvalidUrlError))
  ELSE Step("signInFetchCsrf",
            [c EXCEPT !.signInUrlWithParams = Pathname(url) \o Search(url)],
            <<CsrfRequest(c.prefix)>>, Pending)

\* signIn from its locals to its first await
SignInFirstAwait(c, loc) ==
  IF ~c.isSupportingReturn
    THEN Step("signInFormCsrf", c, <<CsrfRequest(c.prefix)>>, Pending)
    ELSE SignInFetchBegin(c, urlWithParams(c.signInUrl, c.authorizationParams, loc))

\* signIn from its call to its first await
SignInBegin(loc, providerId, options, authorizationParams) ==
  SignInFirstAwait(SignInLocals(loc, providerId, options, authorizationParams), loc)

\* the form flow going on to the callback once the form is submitted
SubmitForm_ThenNavigates(c, action) ==
  IF ~action.valid THEN Step("done", c, <<>>, Rejected(InvalidUrlError))
  ELSE Step("done", c,
            <<SubmitEvent("POST", Pathname(action) \o Search(action),
                          fields(c.csrfToken, c.callbackUrl, c.opts))>>
            \o Navigate(c.callbackUrl),
            Fulfilled(Undefined))

\* the form signIn builds and submits, action being the sign-in URL with
\* the authorization parameters set
SubmitForm(c, action) ==
  IF ~action.valid THEN Step("done", c, <<>>, Rejected(InvalidUrlError))
  ELSE Step("done", c,
            <<SubmitEvent("POST", Pathname(action) \o Search(action),
                          fields(c.csrfToken, c.callbackUrl, c.opts))>>,
            Fulfilled(Undefined))

\* signIn, form flow, from the CSRF fetch settling with token t to the return
SignInFormWithToken(c, t, loc) ==
  IF ~t.ok THEN Step("done", c, <<>>, Rejected(t.error))
  ELSE SubmitForm([c EXCEPT !.csrfToken = t.token],
                  urlWithParams(c.signInUrl, c.authorizationParams, loc))

\* signIn, form flow, from the CSRF fetch settling to the return
SignInFormAfterCsrf(c, reply, loc) ==
  SignInFormWithToken(c, __getCsrfToken(reply), loc)

\* signIn, fetch flow, from the CSRF fetch settling to the POST
SignInFetchAfterCsrf(c, reply) ==
  LET t == __getCsrfToken(reply)
  IN  IF ~t.ok THEN Step("done", c, <<>>, Rejected(t.error))
      ELSE Step("signInPost", [c EXCEPT !.csrfToken = t.token],
                <<FetchEvent("post", c.signInUrlWithParams,
                             signInBody(c.opts, t.token, c.callbackUrl))>>,
                Pending)

\* signIn, fetch flow, from the POST settling to the return
SignInAfterPost(c, reply, loc) ==
  IF reply.kind = "rejects" THEN Step("done", c, <<>>, Rejected(reply.error))
  ELSE
    LET res == reply.res
        data == JsonOrEmpty(res)
        dataUrl == Get(data.v, "url")
        parsed == URLParse(dataUrl.v, NoBase)
        error == IF Truthy(dataUrl) THEN SearchParamsGet(parsed, <<"error">>)
                 ELSE Null
        target == __safeRedirect(candidate(data, res), c.callbackUrl, loc)
    IN  IF data.t # "object"
          THEN Step("done", c, <<>>, Rejected(NullPropertyError))
        ELSE IF Truthy(dataUrl) /\ ~parsed.valid
          THEN Step("done", c, <<>>, Rejected(InvalidUrlError))
        ELSE IF shouldRedirect(c.redirect, c.isSupportingReturn, error)
          THEN Step("done", c, Navigate(target), Fulfilled(Undefined))
        ELSE Step("done", c, <<>>, Fulfilled([t |-> "response", v |-> res]))

\* the locals of signOut before its first await (lines 275-278)
SignOutLocals(loc, options) ==
  [fn |-> "signOut", providerId |-> Undefined, options |-> options,
   authorizationParams |-> <<>>, redirect |-> Undefined,
   callbackUrl |->
     __normalizePathOnly(Nullish(Get(options, "callbackUrl"), Str(loc.href)).v, loc),
   prefix |-> Nullish(Get(options, "prefix"), Str(DefaultPrefix)).v,
   opts |-> <<>>, isSupportingReturn |-> FALSE,
   signInUrl |-> <<>>, signInUrlWithParams |-> <<>>, csrfToken |-> <<>>]

\* signOut posting at once, with no token fetched
SignOutFirstAwait_NoCsrf(c) ==
  Step("signOutPost", c,
       <<FetchEvent("post", c.prefix \o <<"/", "signout">>,
                    signOutBody(<<>>, c.callbackUrl))>>,
       Pending)

\* signOut from its locals to its first await
SignOutFirstAwait(c) == Step("signOutCsrf", c, <<CsrfRequest(c.prefix)>>, Pending)

\* signOut from its call to its first await
SignOutBegin(loc, options) ==
  SignOutFirstAwait(SignOutLocals(loc, options))

\* signOut fetching the token again when the fetch of it failed
SignOutAfterCsrf_Retries(c, reply) ==
  IF ~__getCsrfToken(reply).ok THEN SignOutFirstAwait(c)
  ELSE Step("signOutPost", [c EXCEPT !.csrfToken = __getCsrfToken(reply).token],
            <<FetchEvent("post", c.prefix \o <<"/", "signout">>,
                         signOutBody(__getCsrfToken(reply).token, c.callbackUrl))>>,
            Pending)

\* signOut from the CSRF fetch settling to the POST
SignOutAfterCsrf(c, reply) ==
  LET t == __getCsrfToken(reply)
  IN  IF ~t.ok THEN Step("done", c, <<>>, Rejected(t.error))
      ELSE Step("signOutPost", [c EXCEPT !.csrfToken = t.token],
                <<FetchEvent("post", c.prefix \o <<"/", "signout">>,
                             signOutBody(t.token, c.callbackUrl))>>,
                Pending)

\* signOut from the POST settling to the return
SignOutAfterPost(c, reply, loc) ==
  IF reply.kind = "rejects" THEN Step("done", c, <<>>, Rejected(reply.error))
  ELSE
    LET res == reply.res
        data == JsonOrEmpty(res)
        url == __safeRedirect(candidate(data, res), c.callbackUrl, loc)
    IN  IF data.t # "object"
          THEN Step("done", c, <<>>, Rejected(NullPropertyError))
        ELSE Step("done", c, Navigate(url), Fulfilled(Undefined))

-----------------------------------------------------------------------------
(* The inputs the flows are run on *)

\* how many invocations a behaviour makes
MaxCalls == 2

SameOrigin == <<"http", ":", "/", "/", "localhost">>

CrossOrigin == <<"http", ":", "/", "/", "evil.example">>

\* the pages the helpers are called on (window.location.href)
Pages ==
  { SameOrigin \o <<"/", "current-page">>,
    SameOrigin \o <<"/", "current-page", "?", "tab", "=", "1", "#", "top">> }

\* options.callbackUrl
CallbackUrls ==
  { Undefined,
    Str(<<"/", "dashboard", "#", "tab">>),
    Str(<<"http", ":", "/", "/", "localhost", ":", "80", "/", "dash", "?", "x", "=", "1">>),
    Str(CrossOrigin \o <<"/", "x">>),
    Str(<<"/", "/", "evil.example", "/", "x">>),
    Str(SameOrigin \o <<"/", "/", "evil.example", "/", "x">>),
    Str(<<"http", ":", "/", "/">>) }

\* options.redirect
Redirects == {Undefined, Bool(TRUE), Bool(FALSE)}

\* options.prefix
Prefixes == {Undefined, Str(<<"/", "custom-auth">>)}

\* the option fields beyond callbackUrl, redirect and prefix
Extras ==
  { <<>>,
    [customOption |-> Str(<<"customValue">>)],
    [csrfToken |-> Str(<<"forged">>), customOption |-> Bool(TRUE)] }

\* an options object: the given fields only
MkOptions(callbackUrl, redirect, prefix, extra) ==
  LET named == [callbackUrl |-> callbackUrl, redirect |-> redirect, prefix |-> prefix]
      given == {k \in DOMAIN named : named[k] # Undefined}
  IN  Spread([k \in given |-> named[k]], extra)

Options ==
  { MkOptions(cb, rd, Undefined, <<>>) : cb \in CallbackUrls, rd \in Redirects }
  \cup
  { MkOptions(Undefined, rd, pf, ex) : rd \in Redirects, pf \in Prefixes, ex \in Extras }

SignOutOptions ==
  { MkOptions(cb, Undefined, pf, <<>>) : cb \in CallbackUrls, pf \in Prefixes }

ProviderIds ==
  {Undefined, Str(<<"github">>), Str(<<"credentials">>), Str(<<"email">>)}

\* authorizationParams, as the list of its entries
AuthorizationParams == { <<>>, << <<"prompt", "consent">> >> }

Resolves(status, redirected, url, body) ==
  [kind |-> "resolves",
   res |-> [status |-> status, redirected |-> redirected, url |-> url, body |-> body]]

Rejects(message) ==
  [kind |-> "rejects", error |-> [name |-> "Error", message |-> message]]

NotJson == [json |-> FALSE]

Json(value) == [json |-> TRUE, value |-> value]

\* what the fetch of {prefix}/csrf can settle with
CsrfReplies ==
  { Rejects("Network error") }
  \cup
  { Resolves(st, FALSE, <<>>, b) :
      st \in {200, 500},
      b \in { NotJson,
              Json(Null),
              Json(Obj([some |-> Str(<<"data">>)])),
              Json(Obj([csrfToken |-> Str(<<>>)])),
              Json(Obj([csrfToken |-> Num(42)])),
              Json(Obj([csrfToken |-> Str(<<"token-A">>)])),
              Json(Obj([csrfToken |-> Str(<<"token-B">>)])) } }

\* the url field of the body the backend answers a POST with
BackendUrls ==
  { Str(<<>>),
    Str(<<"/", "dashboard">>),
    Str(SameOrigin \o <<"/", "dashboard">>),
    Str(SameOrigin \o <<"/", "page", "#", "section">>),
    Str(SameOrigin \o <<"/", "current-page", "?", "error", "=", "CredentialsSignin">>),
    Str(SameOrigin \o <<"/", "current-page", "?", "error", "=">>),
    Str(CrossOrigin \o <<"/", "x">>),
    Str(CrossOrigin \o <<"/", "x", "?", "error", "=", "E">>),
    Str(<<"/", "/", "evil.example", "/", "x">>),
    Str(<<"http", ":", "/", "/">>) }

PostBodies ==
  { NotJson, Json(Null), Json(Obj(<<>>)), Json(Obj([url |-> Null])) }
  \cup { Json(Obj([url |-> u])) : u \in BackendUrls }

\* what the state-changing POST can settle with
PostReplies ==
  { Rejects("Network error") }
  \cup { Resolves(200, FALSE, <<>>, b) : b \in PostBodies }
  \cup { Resolves(500, FALSE, <<>>, b) :
           b \in { NotJson, Json(Null), Json(Obj(<<>>)),
                   Json(Obj([url |-> Str(CrossOrigin \o <<"/", "x">>)])) } }
  \cup { Resolves(200, TRUE, o \o <<"/", "landing", "#", "x">>, b) :
           o \in {SameOrigin, CrossOrigin},
           b \in { NotJson, Json(Obj(<<>>)), Json(Obj([url |-> Null])),
                   Json(Obj([url |-> Str(CrossOrigin \o <<"/", "x">>)])) } }

-----------------------------------------------------------------------------
(* The server side: getSession.  The repository holds two versions of it,   *)
(* src/src/server.ts and src/unnamed/part_006; a call runs one of them.     *)
(* Headers are functions from the lower-case header name to the value, but  *)
(* for the headers of the outbound response, a list of name/value entries   *)
(* since Set-Cookie may occur several times.                                *)

\* a JSON array value
Arr(s) == [t |-> "array", v |-> s]

\* Object.keys(data).length
KeysLength(data) ==
  CASE data.t = "object" -> Cardinality(DOMAIN data.v)
    [] data.t \in {"array", "string"} -> Len(data.v)
    [] OTHER -> 0

\* headers.get(name): the value, null when there is no such header
HeadersGet(headers, name) ==
  IF name \in DOMAIN headers THEN Str(headers[name]) ELSE Null

\* createActionURL('session', protocol, headers, env, config) of @auth/core:
\* the URL of the session action under the base path of the configuration
createActionURL(action, protocol, config) ==
  <<protocol, ":", "/", "/", "internal">> \o config.basePath \o <<"/", action>>

\* src/src/server.ts: headers: { cookie: new Headers(req.headers).get('cookie') ?? '' }
CookieOnlyHeaders(headers) ==
  [n \in {"cookie"} |-> Nullish(HeadersGet(headers, "cookie"), Str(<<>>)).v]

\* the copy keeping the cookie header only
CopiedHeaders_CookieOnly(headers) ==
  [n \in (DOMAIN headers) \cap {"cookie"} |-> headers[n]]

\* the copy with a header of getSession's own added
CopiedHeaders_WithAccept(headers) ==
  [n \in (DOMAIN headers) \cup {"accept"} |->
     IF n = "accept" THEN <<"application", "/", "json">> ELSE headers[n]]

\* src/unnamed/part_006: const headers = new Headers(req.headers)
CopiedHeaders(headers) == [n \in DOMAIN headers |-> headers[n]]

\* the request getSession hands to Auth; the protocol createActionURL gets
\* is new URL(req.url).protocol.replace(':', '')
SessionRequest(variant, req, config) ==
  [url |-> createActionURL("session", URLParse(req.url, NoBase).scheme, config),
   headers |-> IF variant = "server.ts" THEN CookieOnlyHeaders(req.headers)
               ELSE CopiedHeaders(req.headers)]

\* what response.json() throws on a body that is not JSON
JsonSyntaxError == [name |-> "SyntaxError", message |-> [text |-> <<"Unexpected token">>]]

\* src/src/server.ts: new Error(data.message)
MessageError(data) ==
  [name |-> "Error",
   message |-> [text |-> IF data.t = "object" /\ "message" \in DOMAIN data.v
                           THEN StringOf(data.v.message) ELSE <<>>]]

\* part_006: new Error(`[astro-auth] getSession failed: ${status} ${JSON.stringify(data)}`)
StatusError(status, data) ==
  [name |-> "Error",
   message |-> [text |-> <<"[astro-auth] getSession failed">>,
                status |-> status, payload |-> data]]

\* the test of the body looking at its truthiness only
NoSession_FalsyOnly(data) == ~Truthy(data)

\* !data || !Object.keys(data).length
NoSession(data) == ~Truthy(data) \/ KeysLength(data) = 0

\* src/src/server.ts, from `const { status = 200 } = response` to the end
SessionResult(status, data) ==
  IF NoSession(data) THEN Fulfilled(Null)
  ELSE IF status = 200 THEN Fulfilled(data)
  ELSE Rejected(MessageError(data))

\* part_006, the return or throw that ends the else branch
SessionOrStatusError(status, data) ==
  IF status = 200 THEN Fulfilled(data) ELSE Rejected(StatusError(status, data))

RECURSIVE Combined(_)
\* headers.get('set-cookie'): the values joined by ", "
Combined(values) ==
  IF Len(values) = 1 THEN values[1]
  ELSE values[1] \o <<", ">> \o Combined(Tail(values))

\* response.headers.get('set-cookie')
SingleSetCookie(res) ==
  IF res.setCookie = <<>> THEN Null ELSE Str(Combined(res.setCookie))

\* the values part_006 appends: those of getSetCookie() where the headers
\* have that method, else the combined value when there is one
CookiesToRelay(res, single) ==
  IF res.hasGetSetCookie THEN res.setCookie
  ELSE IF Truthy(single) THEN <<single.v>> ELSE <<>>

\* target.append('Set-Cookie', c) for every c; no target, nothing done
Relayed(astro, cookies) ==
  IF ~astro.present THEN astro
  ELSE [astro EXCEPT !.headers =
          @ \o [i \in 1..Len(cookies) |-> <<"set-cookie", cookies[i]>>]]

\* how a call ends: the promise and the outbound response
Ended(result_, astro_) == [result |-> result_, astro |-> astro_]

\* part_006 from `const status` on, the body being JSON
AfterJson_part006(res, data, astro) ==
  IF NoSession(data) THEN Ended(Fulfilled(Null), astro)
  ELSE Ended(SessionOrStatusError(res.status, data),
             Relayed(astro, CookiesToRelay(res, SingleSetCookie(res))))

\* getSession from the answer of Auth to its return
AfterAuth(variant, reply, astro) ==
  IF reply.kind = "rejects" THEN Ended(Rejected(reply.error), astro)
  ELSE IF ~reply.res.body.json THEN Ended(Rejected(JsonSyntaxError), astro)
  ELSE IF variant = "server.ts"
    THEN Ended(SessionResult(reply.res.status, reply.res.body.value), astro)
  ELSE AfterJson_part006(reply.res, reply.res.body.value, astro)

\* no getSession call has been made
ServerIdle ==
  [pc |-> "idle", variant |-> "none", req |-> <<>>, authRequest |-> <<>>,
   authCalls |-> 0, reply |-> <<>>, astro0 |-> <<>>, astro |-> <<>>,
   result |-> Pending]

-----------------------------------------------------------------------------
(* The server side: the route handler AstroAuth returns.  As for getSession *)
(* the repository holds two versions, src/src/server.ts and part_006.       *)

\* s.startsWith(p)
startsWith(s, p) == Len(p) <= Len(s) /\ SubSeq(s, 1, Len(p)) = p

\* part_006: prefix.endsWith('/') ? prefix.slice(0, -1) : prefix
normalizedPrefix(prefix) ==
  IF prefix # <<>> /\ prefix[Len(prefix)] = "/"
    THEN SubSeq(prefix, 1, Len(prefix) - 1) ELSE prefix

\* const { prefix = '/api/auth', ...authOptions } = options: the prefix
PrefixOf(options) ==
  IF Get(options, "prefix") = Undefined THEN DefaultPrefix ELSE options.prefix.v

\* the handler taking every request
Handles_Everything(variant, prefix, pathname) == TRUE

\* the negation of the handler's early return:
\* url.pathname.startsWith(prefix + '/'), part_006 normalizing the prefix first
Handles(variant, prefix, pathname) ==
  startsWith(pathname,
             (IF variant = "part_006" THEN normalizedPrefix(prefix) ELSE prefix)
               \o <<"/">>)

\* the handler from the answer of Auth to its return: src/src/server.ts
\* calls cookies.set(name, value, astroOptions) for each of res.cookies
\* before it returns res, part_006 returns it at once
AfterEngine(variant, reply, jar) ==
  IF reply.kind = "rejects" THEN [result |-> Rejected(reply.error), jar |-> jar]
  ELSE [result |-> Fulfilled(reply.res),
        jar |-> IF variant = "server.ts" /\ Truthy(reply.res.cookies)
                  THEN jar \o reply.res.cookies.v ELSE jar]

\* no request has been routed to the handler
RouteIdle ==
  [pc |-> "idle", variant |-> "none", options |-> <<>>, request |-> <<>>,
   engineCalls |-> <<>>, reply |-> <<>>, jar |-> <<>>, result |-> Pending]

-----------------------------------------------------------------------------
(* defineConfig of src/src/config.ts.  A config and an environment are      *)
(* objects: functions from the names of their own properties to values.     *)

\* any non-empty value taken as true
parseBool_AnyTruthy(value) == Truthy(value)

\* parseBool: /^(1|true|yes|on)$/i.test(value) for a non-empty value, the
\* flag i making the letters of the value count whatever their case
parseBool(value) ==
  LET lower(w) == CASE w \in {"TRUE", "True"} -> "true"
                    [] w \in {"YES", "Yes"} -> "yes"
                    [] w \in {"ON", "On"} -> "on"
                    [] OTHER -> w
  IN  IF ~Truthy(value) THEN FALSE
      ELSE Len(value.v) = 1 /\ lower(value.v[1]) \in {"1", "true", "yes", "on"}

\* the earlier defineConfig of src/src/config.ts (380-384), which writes
\* into the object it is given and returns that object:
\* config.prefix ??= '/api/auth'; config.basePath = config.prefix
defineConfigEarlier(config) ==
  IF Nullish(Get(config, "prefix"), Undefined) = Undefined
    THEN Spread(config, [prefix |-> Str(DefaultPrefix), basePath |-> Str(DefaultPrefix)])
    ELSE Spread(config, [basePath |-> config.prefix])

\* the returned object built with the config spread last
defineConfig_SpreadLast(config, env) ==
  Spread([prefix |-> Str(DefaultPrefix), basePath |-> Str(DefaultPrefix),
          secret |-> Get(env, "AUTH_SECRET"), trustHost |-> Bool(FALSE)],
         config)

\* defineConfig(config, envOverride), env being what getEnvVars(envOverride)
\* returned
defineConfig(config, env) ==
  LET prefix == IF Get(config, "prefix").t = "string" /\ Get(config, "prefix").v # <<>>
                  THEN Get(config, "prefix") ELSE Str(DefaultPrefix)
      secret == IF Get(config, "secret").t = "string" /\ Get(config, "secret").v # <<>>
                  THEN Get(config, "secret") ELSE Get(env, "AUTH_SECRET")
      trustHost ==
        IF "trustHost" \in DOMAIN config THEN Truthy(config.trustHost)
        ELSE IF parseBool(Get(env, "AUTH_TRUST_HOST")) THEN TRUE
        ELSE IF parseBool(Get(env, "VERCEL")) THEN TRUE
        ELSE IF parseBool(Get(env, "CF_PAGES")) THEN TRUE
        ELSE Get(env, "NODE_ENV") # Str(<<"production">>)
  IN  Spread(config,
             [prefix |-> prefix, basePath |-> prefix, secret |-> secret,
              trustHost |-> Bool(trustHost)])

-----------------------------------------------------------------------------
(* The integration of src/src/integration.ts: its astro:config:setup hook.  *)
(* The hook is given the Astro config and the two functions updateConfig    *)
(* and injectRoute of the host; calls lists the calls it made on them.      *)

\* the hook without its check of the adapter
setup_AdapterUnchecked(config, astroConfig) ==
  [options |-> config, calls |-> << [op |-> "updateConfig"] >>,
   result |-> Fulfilled(Undefined)]

\* the hook giving the default prefix to every falsy prefix and injecting
\* the route before it updates the config
setup_FalsyPrefixRouteFirst(config, astroConfig) ==
  [options |-> config,
   calls |->
     (IF Get(config, "injectEndpoints") # Bool(FALSE)
        THEN << [op |-> "injectRoute",
                 pattern |-> (IF Truthy(Get(config, "prefix"))
                                THEN StringOf(config.prefix) ELSE DefaultPrefix)
                             \o <<"/", "[...auth]">>,
                 entrypoint |-> <<".", "/", "api", "/", "[...auth].js">>] >>
        ELSE <<>>)
     \o << [op |-> "updateConfig", configFile |-> <<".", "/", "auth.config">>] >>,
   result |->
     IF ~Truthy(Get(astroConfig, "adapter"))
       THEN Rejected([name |-> "Error", message |-> "No adapter found"])
       ELSE Fulfilled(Undefined)]

\* the hook checking the adapter before anything else
setup_AdapterFirst(config, astroConfig) ==
  IF ~Truthy(Get(astroConfig, "adapter"))
    THEN [options |-> config, calls |-> <<>>,
          result |-> Rejected([name |-> "Error", message |-> "No adapter found"])]
    ELSE [options |-> config,
          calls |-> << [op |-> "updateConfig", configFile |-> <<".", "/", "auth.config">>] >>,
          result |-> Fulfilled(Undefined)]

\* hooks['astro:config:setup']({config: astroConfig, injectRoute, updateConfig})
\* of the integration created with config: the options object afterwards,
\* the calls made, and how the promise of the hook settled
setup(config, astroConfig) ==
  LET prefixed == IF Nullish(Get(config, "prefix"), Undefined) = Undefined
                    THEN Spread(config, [prefix |-> Str(DefaultPrefix)])
                    ELSE config
  IN  [options |-> prefixed,
       calls |->
         << [op |-> "updateConfig",
             configFile |-> IF Get(config, "configFile") = Undefined
                              THEN <<".", "/", "auth.config">>
                              ELSE StringOf(config.configFile)] >>
         \o (IF Get(config, "injectEndpoints") # Bool(FALSE)
               THEN << [op |-> "injectRoute",
                        pattern |-> StringOf(prefixed.prefix) \o <<"/", "[...auth]">>,
                        entrypoint |-> <<".", "/", "api", "/", "[...auth].js">>] >>
               ELSE <<>>),
       result |->
         IF ~Truthy(Get(astroConfig, "adapter"))
           THEN Rejected([name |-> "Error", message |-> "No adapter found"])
           ELSE Fulfilled(Undefined)]

-----------------------------------------------------------------------------
(* The state machine: one page, invocations run one after the other *)

VARIABLES
  location,    \* window.location of the page
  pc,          \* where the running invocation is: idle, an await, or done
  call,        \* the locals of the running invocation
  log,         \* the calls the invocation made on the browser, in order
  replies,     \* what the fetches of the invocation settled with, in order
  result,      \* the state of the promise the invocation returned
  nCalls,      \* invocations started on this page
  nCsrfGets,   \* GETs of {prefix}/csrf issued on this page
  srv,         \* the server side: the getSession call in progress
  route,       \* the server side: the request the route handler is serving
  inv,         \* the two invocations of a page that lets them overlap
  cfg,         \* the defineConfig call: its arguments and what it returned
  hook         \* the astro:config:setup call: its arguments and what it did

vars == <<location, pc, call, log, replies, result, nCalls, nCsrfGets, srv, route,
         inv, cfg, hook>>

\* the state of the browser side
clientVars == <<location, pc, call, log, replies, result, nCalls, nCsrfGets>>

NoCall == [fn |-> "none"]

\* the GETs of a csrf endpoint among events
CsrfGets(events) ==
  SelectSeq(events, LAMBDA e : e.op = "fetch" /\ e.method = "GET")

Init ==
  /\ location \in {WindowLocation(URLParse(href, NoBase)) : href \in Pages}
  /\ pc = "idle"
  /\ call = NoCall
  /\ log = <<>>
  /\ replies = <<>>
  /\ result = Pending
  /\ nCalls = 0
  /\ nCsrfGets = 0
  /\ srv = ServerIdle
  /\ route = RouteIdle
  /\ inv = [i \in 1..2 |-> [pc |-> "idle", call |-> NoCall, log |-> <<>>,
                            replies |-> <<>>, result |-> Pending]]
  /\ cfg = [pc |-> "idle"]
  /\ hook = [pc |-> "idle"]

\* the running invocation takes the step s
Take(s) ==
  /\ pc' = s.pc
  /\ call' = s.call
  /\ log' = log \o s.emit
  /\ result' = s.result
  /\ nCsrfGets' = nCsrfGets + Len(CsrfGets(s.emit))
  /\ UNCHANGED <<location, srv, route, inv, cfg, hook>>

\* the page calls signIn(providerId, options, authorizationParams)
signIn ==
  /\ pc = "idle"
  /\ nCalls < MaxCalls
  /\ \E providerId \in ProviderIds, options \in Options,
        authorizationParams \in AuthorizationParams :
       Take(SignInBegin(location, providerId, options, authorizationParams))
  /\ nCalls' = nCalls + 1
  /\ UNCHANGED replies

\* the page calls signOut(options)
signOut ==
  /\ pc = "idle"
  /\ nCalls < MaxCalls
  /\ \E options \in SignOutOptions : Take(SignOutBegin(location, options))
  /\ nCalls' = nCalls + 1
  /\ UNCHANGED replies

\* await __getCsrfToken(prefix) settles in signIn's form flow
SignInFormCsrfSettles ==
  /\ pc = "signInFormCsrf"
  /\ \E reply \in CsrfReplies :
       /\ Take(SignInFormAfterCsrf(call, reply, location))
       /\ replies' = Append(replies, reply)
  /\ UNCHANGED nCalls

\* await __getCsrfToken(prefix) settles in signIn's fetch flow
SignInFetchCsrfSettles ==
  /\ pc = "signInFetchCsrf"
  /\ \E reply \in CsrfReplies :
       /\ Take(SignInFetchAfterCsrf(call, reply))
       /\ replies' = Append(replies, reply)
  /\ UNCHANGED nCalls

\* await fetch(signInUrlWithParams, ...) settles
SignInPostSettles ==
  /\ pc = "signInPost"
  /\ \E reply \in PostReplies :
       /\ Take(SignInAfterPost(call, reply, location))
       /\ replies' = Append(replies, reply)
  /\ UNCHANGED nCalls

\* await __getCsrfToken(prefix) settles in signOut
SignOutCsrfSettles ==
  /\ pc = "signOutCsrf"
  /\ \E reply \in CsrfReplies :
       /\ Take(SignOutAfterCsrf(call, reply))
       /\ replies' = Append(replies, reply)
  /\ UNCHANGED nCalls

\* await fetch(`${prefix}/signout`, ...) settles
SignOutPostSettles ==
  /\ pc = "signOutPost"
  /\ \E reply \in PostReplies :
       /\ Take(SignOutAfterPost(call, reply, location))
       /\ replies' = Append(replies, reply)
  /\ UNCHANGED nCalls

\* the caller's await of the returned promise resumes; the page is ready
\* for its next call
Settled ==
  /\ pc = "done"
  /\ pc' = "idle"
  /\ call' = NoCall
  /\ log' = <<>>
  /\ replies' = <<>>
  /\ result' = Pending
  /\ UNCHANGED <<location, nCalls, nCsrfGets, srv, route, inv, cfg, hook>>

Next ==
  \/ signIn
  \/ signOut
  \/ SignInFormCsrfSettles
  \/ SignInFetchCsrfSettles
  \/ SignInPostSettles
  \/ SignOutCsrfSettles
  \/ SignOutPostSettles
  \/ Settled

Spec == Init /\ [][Next]_vars

-----------------------------------------------------------------------------
(* getSession: its inputs and its two steps *)

\* the two versions of getSession in the repository
Variants == {"server.ts", "part_006"}

\* the configuration: basePath is the route prefix
SessionConfig == [basePath |-> DefaultPrefix]

\* the headers of the inbound request
InboundHeaders ==
  { <<>>,
    [cookie |-> <<"authjs.session-token", "=", "session123">>],
    [cookie |-> <<"authjs.session-token", "=", "session123">>, host |-> <<"example.com">>,
     authorization |-> <<"Bearer", " ", "secret">>],
    ("host" :> <<"example.com">>) @@ ("x-forwarded-proto" :> <<"https">>)
      @@ ("x-forwarded-host" :> <<"example.com">>)
      @@ ("x-forwarded-port" :> <<"443">>) }

\* the inbound requests
SessionRequests ==
  { [url |-> <<"http", ":", "/", "/", "x.local", "/">>, headers |-> h] :
      h \in InboundHeaders }

\* globalThis.Astro?.response?.headers: none, empty, or holding a header
Outbounds ==
  { [present |-> FALSE, headers |-> <<>>],
    [present |-> TRUE, headers |-> <<>>],
    [present |-> TRUE, headers |-> << <<"set-cookie", <<"theme", "=", "dark">> >> >>] }

\* the bodies Auth answers the session request with
SessionBodies ==
  { NotJson, Json(Null), Json(Num(0)), Json(Obj(<<>>)), Json(Arr(<<>>)),
    Json(Obj([user |-> Obj([name |-> Str(<<"T">>)]), expires |-> Str(<<"2099-01-01">>)])),
    Json(Obj([message |-> Str(<<"boom">>)])) }

\* what Auth(request, config) settles with
AuthReplies ==
  { Rejects("engine failure") }
  \cup
  { [kind |-> "resolves",
     res |-> [status |-> st, body |-> b, setCookie |-> sc, hasGetSetCookie |-> g]] :
      st \in {200, 201, 500}, b \in SessionBodies,
      sc \in { <<>>,
               << <<"authjs.session-token", "=", "solo">> >>,
               << <<"authjs.session-token", "=", "newtok">>,
                  <<"authjs.csrf-token", "=", "csrfv">> >> },
      g \in BOOLEAN }

\* getSession(req, config) is called and runs to its await of Auth
getSession ==
  /\ srv.pc = "idle"
  /\ \E variant \in Variants, req \in SessionRequests, astro \in Outbounds :
       srv' = [pc |-> "auth", variant |-> variant, req |-> req,
               authRequest |-> SessionRequest(variant, req, SessionConfig),
               authCalls |-> srv.authCalls + 1, reply |-> <<>>,
               astro0 |-> astro, astro |-> astro, result |-> Pending]
  /\ UNCHANGED <<clientVars, route, inv, cfg, hook>>

\* await Auth(...) settles and getSession runs to its end
AuthSettles ==
  /\ srv.pc = "auth"
  /\ \E reply \in AuthReplies :
       srv' = [srv EXCEPT !.pc = "done", !.reply = reply,
                          !.astro = AfterAuth(srv.variant, reply, srv.astro).astro,
                          !.result = AfterAuth(srv.variant, reply, srv.astro).result]
  /\ UNCHANGED <<clientVars, route, inv, cfg, hook>>

NextServer == getSession \/ AuthSettles

SpecServer == Init /\ [][NextServer]_vars

-----------------------------------------------------------------------------
(* The route handler: its inputs and its two steps *)

\* the options AstroAuth is given: secret and trustHost set, the prefix left
\* out, written with a trailing slash, or a custom one
RouteOptions ==
  { [secret |-> Str(<<"s3cret">>), trustHost |-> Bool(TRUE)] @@ p :
      p \in { <<>>,
              [prefix |-> Str(DefaultPrefix \o <<"/">>)],
              [prefix |-> Str(<<"/", "custom-auth">>)] } }

\* the requests the host router hands to GET or POST
RouteRequests ==
  { [method |-> m, url |-> <<"http", ":", "/", "/", "x.local">> \o path] :
      m \in {"GET", "POST"},
      path \in { <<"/", "api", "/", "auth", "/", "providers">>,
                 <<"/", "api", "/", "auth", "/", "callback", "/", "credentials", "?", "a=1">>,
                 <<"/", "api", "/", "auth">>,
                 <<"/", "api", "/", "auth", "/">>,
                 <<"/", "api", "/", "auth", "/", "/", "session">>,
                 <<"/", "api", "/", "authx", "/", "session">>,
                 <<"/", "custom-auth", "/", "session">>,
                 <<"/", "not-auth", "/", "providers">> } }

\* what Auth(request, options) settles with in the handler: a rejection, or
\* a response with or without a cookies property
EngineReplies ==
  { Rejects("engine failure") }
  \cup
  { [kind |-> "resolves", res |-> [status |-> st, body |-> b, cookies |-> c]] :
      st \in {200, 302, 500},
      b \in {NotJson, Json(Obj([ok |-> Bool(TRUE)]))},
      c \in { Undefined, Arr(<<>>),
              Arr(<< <<"authjs.session-token", "tok", [path |-> <<"/">>]>> >>) } }

\* GET(context) or POST(context): the handler runs to its early return or to
\* its await of Auth
handler ==
  /\ route.pc = "idle"
  /\ \E variant \in Variants, options \in RouteOptions, request \in RouteRequests :
       route' =
         IF Handles(variant, PrefixOf(options),
                    Pathname(URLParse(request.url, NoBase)))
           THEN [route EXCEPT !.pc = "auth", !.variant = variant,
                              !.options = options, !.request = request,
                              !.engineCalls =
                                << [request |-> request,
                                    options |-> Omit(options, {"prefix"})] >>]
           ELSE [route EXCEPT !.pc = "done", !.variant = variant,
                              !.options = options, !.request = request,
                              !.result = Fulfilled(Undefined)]
  /\ UNCHANGED <<clientVars, srv, inv, cfg, hook>>

\* await Auth(request, options) settles and the handler runs to its end
EngineSettles ==
  /\ route.pc = "auth"
  /\ \E reply \in EngineReplies :
       route' = [route EXCEPT !.pc = "done", !.reply = reply,
                              !.jar = AfterEngine(route.variant, reply, route.jar).jar,
                              !.result = AfterEngine(route.variant, reply, route.jar).result]
  /\ UNCHANGED <<clientVars, srv, inv, cfg, hook>>

SpecRoute == Init /\ [][handler \/ EngineSettles]_vars

\* a behaviour of the browser side or a behaviour of getSession
SpecEitherSide ==
  Init /\ [][(srv.pc = "idle" /\ Next) \/ (nCalls = 0 /\ NextServer)]_vars

-----------------------------------------------------------------------------
(* Two invocations in flight on one page: each has its own locals, and the  *)
(* scheduler resumes whichever of them has its awaited fetch settled.       *)

\* the calls the page makes while another may be in flight, each run to its
\* first await
OverlapBegins(loc) ==
  { SignInBegin(loc, Str(<<"credentials">>),
                MkOptions(Str(<<"/", "dashboard", "#", "tab">>), Undefined, Undefined, <<>>),
                <<>>),
    SignInBegin(loc, Str(<<"github">>),
                MkOptions(Str(CrossOrigin \o <<"/", "x">>), Undefined, Undefined, <<>>),
                <<>>),
    SignInBegin(loc, Str(<<"github">>),
                MkOptions(Undefined, Undefined, Undefined,
                          [csrfToken |-> Str(<<"forged">>), customOption |-> Bool(TRUE)]),
                <<>>),
    SignOutBegin(loc, MkOptions(Str(<<"/", "bye">>), Undefined, Undefined, <<>>)) }

\* what the fetches of overlapping invocations settle with
OverlapReplies(at) ==
  IF at \in {"signInFormCsrf", "signInFetchCsrf", "signOutCsrf"}
    THEN { Rejects("Network error"),
           Resolves(200, FALSE, <<>>, Json(Obj([csrfToken |-> Str(<<"token-A">>)]))),
           Resolves(200, FALSE, <<>>, Json(Obj([csrfToken |-> Str(<<"token-B">>)]))) }
    ELSE { Rejects("Network error"),
           Resolves(200, FALSE, <<>>, Json(Obj([url |-> Str(SameOrigin \o <<"/", "dashboard">>)]))),
           Resolves(500, FALSE, <<>>, Json(Obj(<<>>))) }

\* the invocation resumes after the await it is at
Resumed(at, c, reply, loc) ==
  CASE at = "signInFormCsrf" -> SignInFormAfterCsrf(c, reply, loc)
    [] at = "signInFetchCsrf" -> SignInFetchAfterCsrf(c, reply)
    [] at = "signInPost" -> SignInAfterPost(c, reply, loc)
    [] at = "signOutCsrf" -> SignOutAfterCsrf(c, reply)
    [] at = "signOutPost" -> SignOutAfterPost(c, reply, loc)

\* the page calls signIn or signOut, whatever the other invocation is at
Invoked ==
  \E i \in DOMAIN inv :
    /\ inv[i].pc = "idle"
    /\ \E s \in OverlapBegins(location) :
         inv' = [inv EXCEPT ![i] = [pc |-> s.pc, call |-> s.call, log |-> s.emit,
                                    replies |-> <<>>, result |-> s.result]]
    /\ UNCHANGED <<clientVars, srv, route, cfg, hook>>

\* the fetch one of the invocations awaits settles, and that invocation runs
\* to its next await or to its end
FetchSettles ==
  \E i \in DOMAIN inv :
    /\ inv[i].pc \notin {"idle", "done"}
    /\ \E reply \in OverlapReplies(inv[i].pc) :
         inv' = [inv EXCEPT ![i] =
                   [pc |-> Resumed(inv[i].pc, inv[i].call, reply, location).pc,
                    call |-> Resumed(inv[i].pc, inv[i].call, reply, location).call,
                    log |-> @.log \o Resumed(inv[i].pc, inv[i].call, reply, location).emit,
                    replies |-> Append(@.replies, reply),
                    result |-> Resumed(inv[i].pc, inv[i].call, reply, location).result]]
    /\ UNCHANGED <<clientVars, srv, route, cfg, hook>>

SpecOverlap == Init /\ [][Invoked \/ FetchSettles]_vars

-----------------------------------------------------------------------------
(* defineConfig: its inputs and its call *)

\* the configs defineConfig is called with: each of the four properties
\* written or left out
Configs ==
  { Omit([providers |-> Arr(<<>>), prefix |-> p, basePath |-> Str(<<"/", "other">>),
          secret |-> s, trustHost |-> t], unset) :
      p \in {Str(<<>>), Str(<<"/", "custom-auth">>)},
      s \in {Str(<<>>), Str(<<"config-secret">>)},
      t \in {Undefined, Bool(TRUE), Bool(FALSE)},
      unset \in SUBSET {"prefix", "basePath", "secret", "trustHost"} }

\* the environments it reads: each of the five variables set or not
Envs ==
  { Omit([AUTH_SECRET |-> Str(<<"env-secret">>), AUTH_TRUST_HOST |-> a, VERCEL |-> v,
          CF_PAGES |-> c, NODE_ENV |-> n], unset) :
      a \in {Str(<<"true">>), Str(<<"false">>)},
      v \in {Str(<<"1">>), Str(<<"TRUE">>), Str(<<"vercel">>)},
      c \in {Str(<<"On">>), Str(<<"0">>)},
      n \in {Str(<<"production">>), Str(<<"development">>)},
      unset \in SUBSET {"AUTH_SECRET", "AUTH_TRUST_HOST", "VERCEL", "CF_PAGES",
                        "NODE_ENV"} }

\* defineConfig(config, envOverride) is called and returns: config is the
\* object passed, after what that object holds when the call has returned
ConfigDefined ==
  /\ cfg.pc = "idle"
  /\ \E config \in Configs, env \in Envs, earlier \in BOOLEAN :
       cfg' = [pc |-> "done", earlier |-> earlier, config |-> config, env |-> env,
               after |-> IF earlier THEN defineConfigEarlier(config) ELSE config,
               returned |-> IF earlier THEN defineConfigEarlier(config)
                            ELSE defineConfig(config, env)]
  /\ UNCHANGED <<clientVars, srv, route, inv, hook>>

SpecConfig == Init /\ [][ConfigDefined]_vars

-----------------------------------------------------------------------------
(* The integration: its options and the call of its hook *)

\* the options the integration is created with: each of the three written
\* or left out
IntegrationOptions ==
  { Omit([configFile |-> Str(<<".", "/", "custom.config">>), prefix |-> p,
          injectEndpoints |-> e], unset) :
      p \in {Undefined, Null, Str(<<>>), Str(<<"/", "custom-auth">>),
             Str(DefaultPrefix \o <<"/">>)},
      e \in {Undefined, Bool(TRUE), Bool(FALSE)},
      unset \in SUBSET {"configFile", "prefix", "injectEndpoints"} }

\* Astro runs the astro:config:setup hook of the integration, with or
\* without an adapter in its config
ConfigSetup ==
  /\ hook.pc = "idle"
  /\ \E config \in IntegrationOptions,
        adapter \in {Undefined, Null, Obj([name |-> Str(<<"@astrojs/node">>)])} :
       hook' = [pc |-> "done", config |-> config,
                astroConfig |-> [adapter |-> adapter],
                options |-> setup(config, [adapter |-> adapter]).options,
                calls |-> setup(config, [adapter |-> adapter]).calls,
                result |-> setup(config, [adapter |-> adapter]).result]
  /\ UNCHANGED <<clientVars, srv, route, inv, cfg>>

SpecSetup == Init /\ [][ConfigSetup]_vars

-----------------------------------------------------------------------------
(* What the claims are stated on *)

\* the running invocation has returned (its promise has settled)
Done == pc = "done"

\* the events of the log whose op is one of ops
EventsOf(ops) == SelectSeq(log, LAMBDA e : e.op \in ops)

\* the programmatic POSTs of the invocation
Posts == SelectSeq(log, LAMBDA e : e.op = "fetch" /\ e.method = "post")

\* the state-changing requests of the invocation: POSTs and form submissions
StateChanging ==
  SelectSeq(log, LAMBDA e : e.op = "submit" \/ (e.op = "fetch" /\ e.method = "post"))

\* the CSRF endpoint answered with a usable token
CsrfSucceeded(r) ==
  /\ r.kind = "resolves"
  /\ r.res.status \in 200..299
  /\ r.res.body.json
  /\ r.res.body.value.t = "object"
  /\ "csrfToken" \in DOMAIN r.res.body.value.v
  /\ r.res.body.value.v.csrfToken.t = "string"
  /\ r.res.body.value.v.csrfToken.v # <<>>

\* the token a successful answer of the CSRF endpoint carries
ReturnedToken(r) == r.res.body.value.v.csrfToken.v

\* where the browser goes on location.assign(url): url resolved against
\* the URL of the page
AssignDestination(url) == URLParse(url, URLParse(location.href, NoBase))

\* the url field of the body a POST was answered with, undefined when the
\* body is no JSON object or has no such field
BackendUrl(r) ==
  IF r.kind = "resolves" /\ r.res.body.json /\ r.res.body.value.t = "object"
    THEN Get(r.res.body.value.v, "url")
    ELSE Undefined

-----------------------------------------------------------------------------
\* C1: every string passed to window.location.assign by signIn or signOut
\* resolves, against the page, to a URL of the page's origin.
C1_AssignStaysOnOrigin ==
  \A i \in 1..Len(log) :
    log[i].op = "assign" =>
      /\ AssignDestination(log[i].url).valid
      /\ Origin(AssignDestination(log[i].url)) = location.origin

-----------------------------------------------------------------------------
\* the candidate the code hands to __safeRedirect after a POST answered r:
\* the url of the body, else the URL the fetch was redirected to
CandidateOf(r) ==
  IF BackendUrl(r).t \in {"undefined", "null"}
    THEN (IF r.res.redirected THEN Str(r.res.url) ELSE Undefined)
    ELSE BackendUrl(r)

\* the candidate as a URL, resolved against the origin of the page
CandidateURL(r) == URLParse(CandidateOf(r).v, URLParse(location.origin, NoBase))

\* the invocation has navigated after its POST was answered
Navigated ==
  /\ Done
  /\ Len(replies) = 2
  /\ replies[2].kind = "resolves"
  /\ Len(EventsOf({"assign"})) = 1

\* C2: __safeRedirect returns the fallback (the normalized callbackUrl) for a
\* falsy, an unparsable and a cross-origin candidate, and the resolved
\* absolute URL for a same-origin candidate.
C2_SafeRedirect ==
  Navigated =>
    EventsOf({"assign"})[1].url =
      IF CandidateOf(replies[2]).t # "string" \/ CandidateOf(replies[2]).v = <<>>
        THEN call.callbackUrl
      ELSE IF ~CandidateURL(replies[2]).valid THEN call.callbackUrl
      ELSE IF Origin(CandidateURL(replies[2])) # location.origin THEN call.callbackUrl
      ELSE Href(CandidateURL(replies[2]))

\* C2 witness: a cross-origin absolute candidate was replaced by the fallback
C2_Witness ==
  /\ Navigated
  /\ CandidateOf(replies[2]) = Str(CrossOrigin \o <<"/", "x">>)
  /\ EventsOf({"assign"})[1].url = call.callbackUrl

-----------------------------------------------------------------------------
\* C3: the csrfToken field of every state-changing request is the token the
\* invocation's own GET of {prefix}/csrf returned, whatever extra option
\* fields the caller gave (one named csrfToken included).
C3_TokenIsTheFetchedOne ==
  \A i \in 1..Len(StateChanging) :
    /\ "csrfToken" \in DOMAIN StateChanging[i].body
    /\ CsrfSucceeded(replies[1])
    /\ StateChanging[i].body.csrfToken = ReturnedToken(replies[1])

-----------------------------------------------------------------------------
\* C4: an invocation issues exactly one GET of {prefix}/csrf, as its first
\* request; the state-changing step is issued only after that GET was
\* answered with a token; and after n invocations n GETs have been issued.
C4_OneCsrfGetFirst ==
  /\ nCsrfGets = nCalls
  /\ pc # "idle" =>
       /\ Len(CsrfGets(log)) = 1
       /\ log[1] = FetchEvent("GET", call.prefix \o <<"/", "csrf">>, <<>>)
  /\ StateChanging # <<>> =>
       /\ Len(replies) >= 1
       /\ CsrfSucceeded(replies[1])

\* C4 witness: the second invocation of a page has issued its POST
C4_Witness == nCalls = 2 /\ Len(Posts) = 1 /\ nCsrfGets = 2

-----------------------------------------------------------------------------
\* the invocation is a signIn for the credentials or the email provider
ForCredentialsOrEmail ==
  /\ call.fn = "signIn"
  /\ call.providerId \in {Str(<<"credentials">>), Str(<<"email">>)}

\* the invocation is a signIn for any other provider, or for none
ForOtherProvider ==
  /\ call.fn = "signIn"
  /\ call.providerId \notin {Str(<<"credentials">>), Str(<<"email">>)}

\* C5: signIn for 'credentials' or 'email' never submits a form and, once it
\* has its token, issues one programmatic POST; signIn for any other provider
\* issues no fetch but the CSRF GET and, once it has its token, submits one
\* form; options.redirect plays no part.
C5_TransportByProvider ==
  /\ ForCredentialsOrEmail =>
       /\ EventsOf({"submit"}) = <<>>
       /\ (Done /\ CsrfSucceeded(replies[1])) => Len(Posts) = 1
  /\ ForOtherProvider =>
       /\ Posts = <<>>
       /\ EventsOf({"fetch"}) = CsrfGets(log)
       /\ (Done /\ CsrfSucceeded(replies[1])) => Len(EventsOf({"submit"})) = 1

\* C5 witness: signIn('email', {redirect: true}) has issued its POST
C5_Witness ==
  /\ Done
  /\ call.providerId = Str(<<"email">>)
  /\ Get(call.options, "redirect") = Bool(TRUE)
  /\ Len(Posts) = 1
  /\ EventsOf({"submit"}) = <<>>

-----------------------------------------------------------------------------
\* the prefix the caller asked for
AskedPrefix ==
  IF "prefix" \in DOMAIN call.options THEN call.options.prefix.v
  ELSE <<"/", "api", "/", "auth">>

\* the path segment the provider id gives
ProviderSegment ==
  IF call.providerId.t = "string" THEN call.providerId.v ELSE <<"undefined">>

\* C6: the state-changing request of signIn goes to
\* {prefix}/callback/{providerId} exactly when providerId is 'credentials',
\* and to {prefix}/signin/{providerId} otherwise ('email' and an absent
\* provider, whose segment is 'undefined', included); prefix is
\* options.prefix, or '/api/auth' when none is given.
C6_Endpoint ==
  call.fn = "signIn" =>
    \A i \in 1..Len(StateChanging) :
      Before(StateChanging[i].url, "?") =
        AskedPrefix
        \o (IF call.providerId = Str(<<"credentials">>)
              THEN <<"/", "callback", "/">> ELSE <<"/", "signin", "/">>)
        \o ProviderSegment

\* C6 witness: signIn('email', {prefix: '/custom-auth'}) has posted to
\* /custom-auth/signin/email
C6_Witness ==
  /\ call.fn = "signIn"
  /\ Len(Posts) = 1
  /\ Posts[1].url = <<"/", "custom-auth", "/", "signin", "/", "email">>

-----------------------------------------------------------------------------
CsrfErrorMessages ==
  { "Failed to fetch CSRF token",
    "CSRF endpoint returned non-JSON response",
    "Missing or invalid CSRF token" }

\* C7: when the CSRF endpoint fails, signIn and signOut reject with that
\* error and do nothing else: no POST, no form, no assign, no reload.
C7_CsrfFailureStops ==
  (Len(replies) >= 1 /\ ~CsrfSucceeded(replies[1])) =>
    /\ Done
    /\ Len(replies) = 1
    /\ result.state = "rejected"
    /\ IF replies[1].kind = "rejects" THEN result.error = replies[1].error
       ELSE result.error.message \in CsrfErrorMessages
    /\ log = <<FetchEvent("GET", AskedPrefix \o <<"/", "csrf">>, <<>>)>>

\* C7 witness: signOut has rejected on a 500 of the CSRF endpoint
C7_Witness ==
  /\ Done
  /\ call.fn = "signOut"
  /\ replies[1].kind = "resolves"
  /\ replies[1].res.status = 500
  /\ result.state = "rejected"

-----------------------------------------------------------------------------
\* C8: __getCsrfToken resolves with the token exactly when the status is
\* successful, the body is JSON and its csrfToken is a non-empty string;
\* otherwise it rejects, checking status, then JSON, then the token, and a
\* transport failure is passed on as it is.
C8_CsrfChecksInOrder ==
  Len(replies) >= 1 =>
    IF replies[1].kind = "rejects"
      THEN result = Rejected(replies[1].error)
    ELSE IF replies[1].res.status \notin 200..299
      THEN /\ result.state = "rejected"
           /\ result.error.message = "Failed to fetch CSRF token"
           /\ result.error.status = replies[1].res.status
    ELSE IF ~replies[1].res.body.json
      THEN /\ result.state = "rejected"
           /\ result.error.message = "CSRF endpoint returned non-JSON response"
    ELSE IF ~CsrfSucceeded(replies[1])
      THEN /\ result.state = "rejected"
           /\ result.error.message = "Missing or invalid CSRF token"
    ELSE /\ call.csrfToken = ReturnedToken(replies[1])
         /\ StateChanging # <<>>

\* C8 witness: a 500 whose body is not JSON either was reported as a failed
\* fetch
C8_Witness ==
  /\ Len(replies) = 1
  /\ replies[1].kind = "resolves"
  /\ replies[1].res.status = 500
  /\ ~replies[1].res.body.json
  /\ result.state = "rejected"
  /\ result.error.message = "Failed to fetch CSRF token"

-----------------------------------------------------------------------------
\* the url carries an error query parameter
HasErrorParam(url) ==
  /\ url.t = "string"
  /\ \E i \in 2..Len(url.v) : url.v[i] = "error" /\ url.v[i - 1] \in {"?", "&"}

\* C9: for 'credentials' and 'email', once the CSRF fetch and the POST have
\* succeeded, signIn returns the Response without navigating if and only if
\* options.redirect is false and the returned url carries an error
\* parameter; in every other case it navigates and returns nothing.
C9_ResponseOnlyOnSuppressedError ==
  (/\ Done
   /\ ForCredentialsOrEmail
   /\ CsrfSucceeded(replies[1])
   /\ Len(replies) = 2
   /\ replies[2].kind = "resolves") =>
    IF Get(call.options, "redirect") = Bool(FALSE) /\ HasErrorParam(BackendUrl(replies[2]))
      THEN /\ result = Fulfilled([t |-> "response", v |-> replies[2].res])
           /\ EventsOf({"assign", "reload"}) = <<>>
      ELSE /\ result = Fulfilled(Undefined)
           /\ Len(EventsOf({"assign"})) = 1

-----------------------------------------------------------------------------
\* C10: window.location.reload is called once when the target passed to
\* location.assign contains '#', and not at all otherwise.
C10_ReloadIffHash ==
  Len(EventsOf({"reload"})) =
    IF /\ EventsOf({"assign"}) # <<>>
       /\ \E k \in 1..Len(EventsOf({"assign"})[1].url) :
            EventsOf({"assign"})[1].url[k] = "#"
      THEN 1 ELSE 0

\* C10 witness: the fallback callbackUrl has a hash, it was assigned and the
\* page reloaded once
C10_Witness ==
  /\ Done
  /\ Len(EventsOf({"assign"})) = 1
  /\ EventsOf({"assign"})[1].url = <<"/", "dashboard", "#", "tab">>
  /\ EventsOf({"assign"})[1].url = call.callbackUrl
  /\ Len(EventsOf({"reload"})) = 1


-----------------------------------------------------------------------------
\* v is a non-empty string that resolves, against the origin of the page, to
\* a URL of that origin
SameOriginTarget(v) ==
  /\ v.t = "string"
  /\ v.v # <<>>
  /\ URLParse(v.v, URLParse(location.origin, NoBase)).valid
  /\ Origin(URLParse(v.v, URLParse(location.origin, NoBase))) = location.origin

\* the absolute form of v resolved against the origin of the page
TargetHref(v) == Href(URLParse(v.v, URLParse(location.origin, NoBase)))

\* the URL the fetch was redirected to when it is usable, else the callback
RedirectedOrCallback(r) ==
  IF r.res.redirected /\ SameOriginTarget(Str(r.res.url))
    THEN TargetHref(Str(r.res.url))
    ELSE call.callbackUrl

\* a credentials/email signIn has navigated after its POST was answered
SignInNavigated == Navigated /\ ForCredentialsOrEmail

\* C11 as stated: the target is the backend url when present and same-origin,
\* else the redirected fetch URL, else the normalized callback; a cross-origin
\* backend url gives way to the redirected URL.
C11_RedirectedAfterRejectedUrl ==
  SignInNavigated =>
    EventsOf({"assign"})[1].url =
      IF SameOriginTarget(BackendUrl(replies[2]))
        THEN TargetHref(BackendUrl(replies[2]))
        ELSE RedirectedOrCallback(replies[2])

\* C11 amended: the redirected fetch URL is considered only when the body
\* has no url (undefined or null); a backend url that is present but
\* cross-origin, unparsable or empty yields the normalized callback even
\* when the response was redirected.
C11_TargetPrecedence ==
  SignInNavigated =>
    EventsOf({"assign"})[1].url =
      IF BackendUrl(replies[2]).t \in {"undefined", "null"}
        THEN RedirectedOrCallback(replies[2])
      ELSE IF SameOriginTarget(BackendUrl(replies[2]))
        THEN TargetHref(BackendUrl(replies[2]))
      ELSE call.callbackUrl

\* C11 witness: a cross-origin backend url on a response redirected to a
\* same-origin URL; the signIn went to the callback
C11_Witness ==
  /\ SignInNavigated
  /\ BackendUrl(replies[2]) = Str(CrossOrigin \o <<"/", "x">>)
  /\ replies[2].res.redirected
  /\ SameOriginTarget(Str(replies[2].res.url))
  /\ EventsOf({"assign"})[1].url = call.callbackUrl


-----------------------------------------------------------------------------
\* the href the invocation normalizes: options.callbackUrl, the URL of the
\* page when the caller gave none
AskedCallback == Nullish(Get(call.options, "callbackUrl"), Str(location.href)).v

\* path, query and hash of the page
PagePathOnly == location.pathname \o location.search \o location.hash

\* C12: the callbackUrl field of every state-changing request is the path,
\* query and hash of the asked href resolved against the origin of the page
\* when that URL is of the page's origin, and the path, query and hash of the
\* page when it is cross-origin or does not parse.
C12_CallbackIsNormalized ==
  \A i \in 1..Len(StateChanging) :
    StateChanging[i].body.callbackUrl =
      IF /\ URLParse(AskedCallback, URLParse(location.origin, NoBase)).valid
         /\ Origin(URLParse(AskedCallback, URLParse(location.origin, NoBase)))
              = location.origin
        THEN Pathname(URLParse(AskedCallback, URLParse(location.origin, NoBase)))
               \o Search(URLParse(AskedCallback, URLParse(location.origin, NoBase)))
               \o Hash(URLParse(AskedCallback, URLParse(location.origin, NoBase)))
        ELSE PagePathOnly

\* C12 witness: a cross-origin callbackUrl was replaced by the path, query
\* and hash of a page that has all three
C12_Witness ==
  /\ Len(StateChanging) = 1
  /\ AskedCallback = CrossOrigin \o <<"/", "x">>
  /\ location.hash # <<>>
  /\ location.search # <<>>
  /\ StateChanging[1].body.callbackUrl = PagePathOnly


-----------------------------------------------------------------------------
\* the form submissions of the invocation
Submits == EventsOf({"submit"})

\* the names of the option fields beyond prefix, callbackUrl and redirect
ExtraNames == (DOMAIN call.options) \ {"prefix", "callbackUrl", "redirect"}

RECURSIVE JoinedParams(_)
\* name=value of every entry, joined by "&"
JoinedParams(ps) ==
  IF ps = <<>> THEN <<>>
  ELSE <<ps[1][1], "=", ps[1][2]>>
       \o (IF Len(ps) = 1 THEN <<>> ELSE <<"&">> \o JoinedParams(Tail(ps)))

\* the query the authorization parameters make, nothing when there are none
ParamsQuery(ps) == IF ps = <<>> THEN <<>> ELSE <<"?">> \o JoinedParams(ps)

\* C13: for a provider other than credentials and email the submitted form
\* has method POST, the action {prefix}/signin/{providerId} followed by the
\* authorizationParams as its query, and as hidden fields csrfToken, the
\* normalized callbackUrl and every extra option coerced to a string, and
\* nothing else: prefix, redirect and the raw callbackUrl are not forwarded.
C13_FormShape ==
  ForOtherProvider =>
    \A i \in 1..Len(Submits) :
      /\ Submits[i].method = "POST"
      /\ Submits[i].url =
           AskedPrefix \o <<"/", "signin", "/">> \o ProviderSegment
           \o ParamsQuery(call.authorizationParams)
      /\ DOMAIN Submits[i].body = {"csrfToken", "callbackUrl"} \cup ExtraNames
      /\ Submits[i].body.callbackUrl = call.callbackUrl
      /\ \A k \in ExtraNames : Submits[i].body[k] = StringOf(call.options[k])
      /\ "csrfToken" \notin ExtraNames =>
           Submits[i].body.csrfToken = ReturnedToken(replies[1])

\* C13 witness: signIn('github', {redirect: false, prefix: '/custom-auth',
\* customOption: 'customValue'}, {prompt: 'consent'}) has submitted its form
C13_Witness ==
  /\ ForOtherProvider
  /\ Len(Submits) = 1
  /\ DOMAIN call.options = {"redirect", "prefix", "customOption"}
  /\ Submits[1].url =
       <<"/", "custom-auth", "/", "signin", "/", "github", "?",
         "prompt", "=", "consent">>
  /\ Submits[1].body.customOption = <<"customValue">>


-----------------------------------------------------------------------------
\* C14: for a provider other than credentials and email, signIn's promise is
\* fulfilled with undefined in the very step that submits the form, no
\* further fetch being awaited; the flow never calls location.assign or
\* location.reload, and its promise never carries a Response.
C14_FormFlowReturnsAtSubmit ==
  ForOtherProvider =>
    /\ EventsOf({"assign", "reload"}) = <<>>
    /\ Posts = <<>>
    /\ Len(replies) <= 1
    /\ result.state = "fulfilled" => result.value = Undefined
    /\ Len(Submits) = 1 <=> result = Fulfilled(Undefined)
    /\ Len(Submits) = 1 => Done /\ log[Len(log)].op = "submit"

\* C14 witness: signIn('github', {redirect: false}) has submitted its form
\* and returned
C14_Witness ==
  /\ ForOtherProvider
  /\ call.redirect = Bool(FALSE)
  /\ Len(Submits) = 1
  /\ result = Fulfilled(Undefined)


-----------------------------------------------------------------------------
\* a signOut whose CSRF fetch and POST have both succeeded has returned
SignOutAnswered ==
  /\ Done
  /\ call.fn = "signOut"
  /\ Len(replies) = 2
  /\ CsrfSucceeded(replies[1])
  /\ replies[2].kind = "resolves"
  /\ replies[2].res.status \in 200..299

\* C15: signOut, once its CSRF fetch and its POST to {prefix}/signout with
\* the token and the normalized callbackUrl have succeeded, calls
\* location.assign exactly once: with the response's url resolved when that
\* is same-origin, with the normalized callbackUrl otherwise.
C15_SignOutAlwaysNavigates ==
  SignOutAnswered =>
    /\ Len(Posts) = 1
    /\ Posts[1].url = AskedPrefix \o <<"/", "signout">>
    /\ Posts[1].body =
         [csrfToken |-> ReturnedToken(replies[1]), callbackUrl |-> call.callbackUrl]
    /\ Len(EventsOf({"assign"})) = 1
    /\ EventsOf({"assign"})[1].url =
         IF SameOriginTarget(CandidateOf(replies[2]))
           THEN TargetHref(CandidateOf(replies[2]))
           ELSE call.callbackUrl


-----------------------------------------------------------------------------
(* getSession *)

\* a getSession call has returned after Auth answered with a response
SessionAnswered == srv.pc = "done" /\ srv.reply.kind = "resolves"

\* Auth answered with a JSON body
SessionJson == SessionAnswered /\ srv.reply.res.body.json

\* the parsed JSON values that hold no session: falsy, or without keys
EmptyBodies == {Null, Num(0), Obj(<<>>), Arr(<<>>)}

\* C16: for every answer of the engine whose status is not 2xx, whatever the
\* body (an empty one and {} included), getSession rejects with an error
\* whose message holds the status, and the payload when there is one.
C16_Non2xxRejectsWithStatus ==
  (/\ SessionAnswered
   /\ srv.variant = "part_006"
   /\ srv.reply.res.status \notin 200..299) =>
    /\ srv.result.state = "rejected"
    /\ "status" \in DOMAIN srv.result.error.message
    /\ srv.result.error.message.status = srv.reply.res.status
    /\ srv.reply.res.body.json =>
         srv.result.error.message.payload = srv.reply.res.body.value

\* C17: on a 200 answer with a JSON body getSession returns null when the
\* body is falsy or has no keys ({} included), and the parsed body itself,
\* unchanged, when it is an object with keys.
C17_NullOrSessionOn200 ==
  (SessionJson /\ srv.reply.res.status = 200) =>
    srv.result =
      IF srv.reply.res.body.value \in EmptyBodies
        THEN Fulfilled(Null)
        ELSE Fulfilled(srv.reply.res.body.value)

\* C17 witness: both versions have returned null for {} or the session for
\* a session body on a 200 answer
C17_Witness ==
  /\ SessionJson
  /\ srv.reply.res.status = 200
  /\ srv.reply.res.body.value.t = "object"
  /\ "user" \in DOMAIN srv.reply.res.body.value.v
  /\ srv.result = Fulfilled(srv.reply.res.body.value)

\* C18: every 2xx answer, not only 200, whose body holds a session is
\* returned as it is.
C18_Any2xxReturnsBody ==
  (/\ SessionJson
   /\ srv.reply.res.status \in 200..299
   /\ srv.reply.res.body.value \notin EmptyBodies) =>
    srv.result = Fulfilled(srv.reply.res.body.value)

\* C19: the request handed to Auth carries the cookie header of the inbound
\* request unchanged when there is one, and no cookie header at all, not
\* even an empty one, when there is none.
C19_CookieForwardedOrOmitted ==
  srv.pc # "idle" =>
    IF "cookie" \in DOMAIN srv.req.headers
      THEN /\ "cookie" \in DOMAIN srv.authRequest.headers
           /\ srv.authRequest.headers["cookie"] = srv.req.headers["cookie"]
      ELSE "cookie" \notin DOMAIN srv.authRequest.headers

-----------------------------------------------------------------------------
\* the headers a proxy sets for the auth engine to find the public URL
ProxyHeaders == {"host", "x-forwarded-proto", "x-forwarded-host", "x-forwarded-port"}

\* a getSession call of the version of part_006 has handed its request to
\* Auth
Part006Asked == srv.pc # "idle" /\ srv.variant = "part_006"

-----------------------------------------------------------------------------
\* a getSession call of the version of part_006 has returned after Auth
\* answered with Set-Cookie headers, an outbound response being available
CookiesToPassOn ==
  /\ SessionAnswered
  /\ srv.variant = "part_006"
  /\ srv.reply.res.setCookie # <<>>
  /\ srv.astro0.present

\* the values appended to the outbound response by the call
Appended ==
  SubSeq(srv.astro.headers, Len(srv.astro0.headers) + 1, Len(srv.astro.headers))

\* C22: whenever the answer of the engine carries Set-Cookie headers and an
\* outbound response is available, every one of them is on the outbound
\* response afterwards (on its own or within the combined value), whether
\* the call returned a session, returned null or threw.
C22_RelayWhateverOutcome ==
  CookiesToPassOn =>
    \A i \in 1..Len(srv.reply.res.setCookie) :
      \E j \in 1..Len(Appended) :
        /\ Appended[j][1] = "set-cookie"
        /\ Appended[j][2] \in {srv.reply.res.setCookie[i],
                               Combined(srv.reply.res.setCookie)}

\* C23: the k Set-Cookie values of the answer are appended to the outbound
\* response as k values of their own, in order and unchanged, never as one
\* comma-joined value, after the headers the response already had.  Stated
\* for the calls whose body holds a session, those that reach the relay.
C23_IndependentValues ==
  (CookiesToPassOn /\ srv.reply.res.body.json
     /\ srv.reply.res.body.value \notin EmptyBodies) =>
    srv.astro.headers =
      srv.astro0.headers
      \o [i \in 1..Len(srv.reply.res.setCookie) |->
            <<"set-cookie", srv.reply.res.setCookie[i]>>]


\* the route handler has returned or thrown
RouteServed == route.pc = "done"

\* the path of the request the handler was given
RoutePath == Pathname(URLParse(route.request.url, NoBase))

\* the handler asked the engine once, with the request it was given, and
\* what it returned is the engine's answer: the same response, or the same
\* rejection
EngineAskedOnce ==
  /\ Len(route.engineCalls) = 1
  /\ route.engineCalls[1].request = route.request
  /\ route.reply.kind = "resolves" => route.result = Fulfilled(route.reply.res)
  /\ route.reply.kind = "rejects" => route.result = Rejected(route.reply.error)

\* the handler returned undefined and the engine was not asked
Unhandled == route.result = Fulfilled(Undefined) /\ route.engineCalls = <<>>

\* C24 as stated: a request is passed to the engine, once and with its
\* response returned as it is, exactly when its path starts with the
\* configured prefix followed by "/"; any other request is unhandled.
C24_WrittenPrefixDecides ==
  RouteServed =>
    IF startsWith(RoutePath, PrefixOf(route.options) \o <<"/">>)
      THEN EngineAskedOnce ELSE Unhandled

\* the prefix the handler compares with: part_006 drops one trailing slash
ComparedPrefix ==
  IF route.variant = "part_006"
       /\ PrefixOf(route.options)[Len(PrefixOf(route.options))] = "/"
    THEN SubSeq(PrefixOf(route.options), 1, Len(PrefixOf(route.options)) - 1)
    ELSE PrefixOf(route.options)

\* C24 amended: the same, the prefix being read without its trailing slash
\* in part_006 and as written in src/src/server.ts; the engine is never
\* asked twice, and its rejection is passed on as it is.
C24_ComparedPrefixDecides ==
  /\ Len(route.engineCalls) <= 1
  /\ RouteServed =>
       IF startsWith(RoutePath, ComparedPrefix \o <<"/">>)
         THEN EngineAskedOnce ELSE Unhandled

C24_Witness ==
  /\ RouteServed
  /\ route.variant = "part_006"
  /\ PrefixOf(route.options) = DefaultPrefix \o <<"/">>
  /\ route.request.method = "POST"
  /\ route.engineCalls # <<>>
  /\ route.reply.kind = "resolves"
  /\ route.result = Fulfilled(route.reply.res)


-----------------------------------------------------------------------------
\* the i-th request of the invocation failed: the fetch rejected, or it was
\* the CSRF GET and __getCsrfToken threw on its answer
FailedReply(i) ==
  \/ replies[i].kind = "rejects"
  \/ i = 1 /\ ~__getCsrfToken(replies[1]).ok

\* C25: no request is retried.  An invocation of signIn or signOut issues at
\* most one CSRF GET and at most one POST, never a request while another is
\* awaited, and none after a request of its failed; a getSession call asks
\* the engine once, whatever the engine answers.
C25_NoRetry ==
  /\ Len(CsrfGets(log)) <= 1
  /\ Len(Posts) <= 1
  /\ Len(EventsOf({"fetch"})) <= Len(replies) + 1
  /\ \A i \in 1..Len(replies) :
       FailedReply(i) => i = Len(replies) /\ Len(EventsOf({"fetch"})) = i /\ Done
  /\ srv.authCalls <= 1
  /\ srv.pc \in {"auth", "done"} => srv.authCalls = 1

\* C25 witnesses: a signIn whose POST rejected after a successful CSRF GET
C25_Witness ==
  /\ Done
  /\ call.fn = "signIn"
  /\ Len(replies) = 2
  /\ replies[2].kind = "rejects"
  /\ Len(EventsOf({"fetch"})) = 2


-----------------------------------------------------------------------------
\* the state-changing requests of one of the overlapping invocations
StateChangingOf(i) ==
  SelectSeq(inv[i].log,
            LAMBDA e : e.op = "submit" \/ (e.op = "fetch" /\ e.method = "post"))

\* C26: of two overlapping invocations, under every interleaving of their
\* awaits, each issues one CSRF GET of its own; each state-changing request
\* carries the token the GET of its own invocation returned and the
\* callbackUrl of its own invocation; and two invocations called alike and
\* answered alike end alike, wherever the other one was at.
C26_EachItsOwnToken ==
  /\ \A i \in DOMAIN inv :
       /\ inv[i].pc # "idle" => Len(CsrfGets(inv[i].log)) = 1
       /\ \A k \in 1..Len(StateChangingOf(i)) :
            /\ CsrfSucceeded(inv[i].replies[1])
            /\ StateChangingOf(i)[k].body.csrfToken = ReturnedToken(inv[i].replies[1])
            /\ StateChangingOf(i)[k].body.callbackUrl = inv[i].call.callbackUrl
  /\ (inv[1].call = inv[2].call /\ inv[1].replies = inv[2].replies) =>
       inv[1] = inv[2]


-----------------------------------------------------------------------------
\* defineConfig of src/src/config.ts 184-224 has returned
ConfigReturned == cfg.pc = "done" /\ ~cfg.earlier

\* the config names a prefix: a string that is not empty
PrefixSupplied ==
  /\ "prefix" \in DOMAIN cfg.config
  /\ cfg.config.prefix.t = "string"
  /\ cfg.config.prefix.v # <<>>

\* C27: the config defineConfig returns has basePath equal to prefix, and
\* prefix is the supplied one when that is a non-empty string, '/api/auth'
\* otherwise, whatever basePath the caller wrote.
C27_BasePathIsPrefix ==
  ConfigReturned =>
    /\ cfg.returned.basePath = cfg.returned.prefix
    /\ cfg.returned.prefix =
         IF PrefixSupplied THEN cfg.config.prefix ELSE Str(DefaultPrefix)

\* C27 witness: an empty prefix and a basePath of the caller's both replaced
C27_Witness ==
  /\ ConfigReturned
  /\ Get(cfg.config, "prefix") = Str(<<>>)
  /\ Get(cfg.config, "basePath") = Str(<<"/", "other">>)
  /\ cfg.returned.basePath = Str(DefaultPrefix)

-----------------------------------------------------------------------------
\* the environment variable name is set to one of "1", "true", "yes", "on",
\* in whatever letter case
SetToYes(name) ==
  /\ name \in DOMAIN cfg.env
  /\ cfg.env[name] \in {Str(<<w>>) : w \in {"1", "true", "TRUE", "True", "yes", "YES",
                                             "Yes", "on", "ON", "On"}}

\* the environment variable name is not set, or set to the empty string
NotSet(name) == name \notin DOMAIN cfg.env \/ cfg.env[name] = Str(<<>>)

\* the config names a secret: a string that is not empty
SecretSupplied ==
  /\ "secret" \in DOMAIN cfg.config
  /\ cfg.config.secret.t = "string"
  /\ cfg.config.secret.v # <<>>

\* C28: a trustHost property of the config decides alone, by its truthiness,
\* whatever the environment holds.  Without it, any of AUTH_TRUST_HOST,
\* VERCEL, CF_PAGES set to yes turns trustHost on, whatever NODE_ENV is; and
\* when AUTH_TRUST_HOST is not set to yes and VERCEL and CF_PAGES are not
\* set, trustHost is on exactly when NODE_ENV is not 'production'.  secret
\* is the config's when that is a non-empty string, AUTH_SECRET otherwise.
C28_TrustHostPrecedence ==
  ConfigReturned =>
    /\ "trustHost" \in DOMAIN cfg.config =>
         cfg.returned.trustHost = Bool(Truthy(cfg.config.trustHost))
    /\ ("trustHost" \notin DOMAIN cfg.config
          /\ (SetToYes("AUTH_TRUST_HOST") \/ SetToYes("VERCEL") \/ SetToYes("CF_PAGES"))) =>
         cfg.returned.trustHost = Bool(TRUE)
    /\ ("trustHost" \notin DOMAIN cfg.config
          /\ ~SetToYes("AUTH_TRUST_HOST") /\ NotSet("VERCEL") /\ NotSet("CF_PAGES")) =>
         cfg.returned.trustHost = Bool(Get(cfg.env, "NODE_ENV") # Str(<<"production">>))
    /\ cfg.returned.secret =
         IF SecretSupplied THEN cfg.config.secret ELSE Get(cfg.env, "AUTH_SECRET")

\* C28 witness: trustHost: false in the config against AUTH_TRUST_HOST=true
\* and VERCEL=1 outside production
C28_Witness ==
  /\ ConfigReturned
  /\ Get(cfg.config, "trustHost") = Bool(FALSE)
  /\ SetToYes("AUTH_TRUST_HOST")
  /\ SetToYes("VERCEL")
  /\ Get(cfg.env, "NODE_ENV") = Str(<<"development">>)
  /\ cfg.returned.trustHost = Bool(FALSE)

-----------------------------------------------------------------------------
\* C29: without a trustHost property in the config, any non-empty value of
\* VERCEL or of CF_PAGES turns trustHost on.
C29_AnyTruthyValueEnables ==
  (ConfigReturned /\ "trustHost" \notin DOMAIN cfg.config
     /\ (Truthy(Get(cfg.env, "VERCEL")) \/ Truthy(Get(cfg.env, "CF_PAGES")))) =>
    cfg.returned.trustHost = Bool(TRUE)


-----------------------------------------------------------------------------
\* the astro:config:setup hook has run
SetupRan == hook.pc = "done"

\* C30: whatever options the integration was created with, its
\* astro:config:setup hook throws the 'No adapter found' error when the
\* Astro config has no adapter and completes without error when it has one.
C30_AdapterRequired ==
  SetupRan =>
    IF Get(hook.astroConfig, "adapter") \in {Undefined, Null}
      THEN /\ hook.result.state = "rejected"
           /\ hook.result.error.message = "No adapter found"
      ELSE hook.result = Fulfilled(Undefined)

\* C30 witness: routes not injected, a custom prefix, no adapter: the hook threw
C30_Witness ==
  /\ SetupRan
  /\ Get(hook.config, "injectEndpoints") = Bool(FALSE)
  /\ Get(hook.config, "prefix") = Str(<<"/", "custom-auth">>)
  /\ hook.astroConfig.adapter = Undefined
  /\ hook.result.state = "rejected"


-----------------------------------------------------------------------------
\* the calls the hook made on the host function named op
HookCalls(op) == SelectSeq(hook.calls, LAMBDA c : c.op = op)

\* the prefix of the injected route: the default for a prefix left out,
\* undefined or null, else the one written
RoutePrefix ==
  IF Get(hook.config, "prefix") \in {Undefined, Null}
    THEN DefaultPrefix ELSE hook.config.prefix.v

\* C31: the hook calls updateConfig once, as its first call; it calls
\* injectRoute once, with the pattern '{prefix}/[...auth]', unless
\* injectEndpoints is false, and then not at all; the prefix is '/api/auth'
\* only when none, undefined or null was written.
C31_UpdateThenInject ==
  SetupRan =>
    /\ Len(HookCalls("updateConfig")) = 1
    /\ hook.calls[1].op = "updateConfig"
    /\ IF Get(hook.config, "injectEndpoints") = Bool(FALSE)
         THEN HookCalls("injectRoute") = <<>>
         ELSE /\ Len(HookCalls("injectRoute")) = 1
              /\ HookCalls("injectRoute")[1].pattern = RoutePrefix \o <<"/", "[...auth]">>

\* C31 witness: the empty prefix kept, the route '/[...auth]' injected after
\* the update of the config
C31_Witness ==
  /\ SetupRan
  /\ Get(hook.config, "prefix") = Str(<<>>)
  /\ Len(hook.calls) = 2
  /\ hook.calls[2].op = "injectRoute"
  /\ hook.calls[2].pattern = <<"/", "[...auth]">>

-----------------------------------------------------------------------------
\* C32: after the hook has run, the options object the integration was
\* created with has the fields and values it had before.
C32_OptionsUntouched == SetupRan => hook.options = hook.config


-----------------------------------------------------------------------------
\* C40: the adapter check runs last.  When the hook throws for a missing
\* adapter, updateConfig has been called already and, unless injectEndpoints
\* is false, the auth route has been injected already.
C40_ThrowsAfterItsCalls ==
  (SetupRan /\ hook.result.state = "rejected") =>
    /\ Len(HookCalls("updateConfig")) = 1
    /\ Get(hook.config, "injectEndpoints") # Bool(FALSE) =>
         Len(HookCalls("injectRoute")) = 1

\* C40 witness: no adapter, and the host has got the update and the route
C40_Witness ==
  /\ SetupRan
  /\ hook.astroConfig.adapter = Null
  /\ hook.result.state = "rejected"
  /\ Len(hook.calls) = 2


-----------------------------------------------------------------------------
\* the four ways a signIn invocation may end
Outcomes ==
  [submitted |-> /\ Len(EventsOf({"submit"})) = 1
                 /\ EventsOf({"assign", "reload"}) = <<>>
                 /\ result = Fulfilled(Undefined),
   navigated |-> /\ Len(EventsOf({"assign"})) = 1
                 /\ EventsOf({"submit"}) = <<>>
                 /\ result = Fulfilled(Undefined),
   responded |-> /\ result.state = "fulfilled"
                 /\ result.value.t = "response"
                 /\ EventsOf({"submit", "assign", "reload"}) = <<>>,
   rejected |-> /\ result.state = "rejected"
                /\ EventsOf({"submit", "assign", "reload"}) = <<>>]

\* C33: a signIn invocation that has ended has ended in exactly one of four
\* ways: its form submitted and nothing returned; location.assign called
\* once and nothing returned; the Response returned and no navigation; or
\* the promise rejected with no form submitted and no navigation.
C33_OneOfFourOutcomes ==
  (Done /\ call.fn = "signIn") =>
    Cardinality({o \in DOMAIN Outcomes : Outcomes[o]}) = 1

\* C33 witness: a signIn ended with the Response returned
C33_Witness ==
  /\ Done
  /\ call.fn = "signIn"
  /\ Outcomes.responded
  /\ ~Outcomes.navigated


-----------------------------------------------------------------------------
\* C34: a signIn for 'credentials' or 'email' whose CSRF fetch returned a
\* token and whose POST was answered never rejects, whatever the body of the
\* answer: it ends by navigating or by returning the Response.
C34_NeverRejectsOnBody ==
  (/\ Done
   /\ ForCredentialsOrEmail
   /\ CsrfSucceeded(replies[1])
   /\ Len(replies) = 2
   /\ replies[2].kind = "resolves") =>
    /\ result.state = "fulfilled"
    /\ Outcomes.navigated \/ Outcomes.responded


-----------------------------------------------------------------------------
\* C35: __normalizePathOnly is idempotent for a fixed page: the callbackUrl
\* an invocation has normalized is left as it is by a second normalization.
C35_NormalizeIdempotent ==
  (pc # "idle" /\ "callbackUrl" \in DOMAIN call) =>
    __normalizePathOnly(call.callbackUrl, location) = call.callbackUrl


-----------------------------------------------------------------------------
\* the POST of the invocation was answered with a status that is not a
\* success and with no url to go to: none of the page's origin in the body,
\* and no redirection
FailedPostWithoutUrl ==
  /\ Done
  /\ Len(replies) = 2
  /\ replies[2].kind = "resolves"
  /\ replies[2].res.status \notin 200..299
  /\ ~SameOriginTarget(CandidateOf(replies[2]))

\* C36: the status of the state-changing POST is not looked at: signIn and
\* signOut, answered with a non-success status and no usable url, call
\* location.assign with the normalized callbackUrl and resolve.
C36_StatusNotInspected ==
  FailedPostWithoutUrl =>
    /\ result = Fulfilled(Undefined)
    /\ Len(EventsOf({"assign"})) = 1
    /\ EventsOf({"assign"})[1].url = call.callbackUrl


-----------------------------------------------------------------------------
\* C37: location.reload is called only right after a location.assign of the
\* same invocation: every reload in the calls of an invocation has an assign
\* just before it, and an invocation that reloaded has submitted no form and
\* ends resolved with no value.
C37_ReloadOnlyAfterAssign ==
  /\ \A i \in 1..Len(log) :
       log[i].op = "reload" => (i > 1 /\ log[i - 1].op = "assign")
  /\ EventsOf({"reload"}) # <<>> =>
       /\ EventsOf({"submit"}) = <<>>
       /\ Done
       /\ result = Fulfilled(Undefined)

\* C37 witness: a signOut assigned a target with a hash and reloaded, as its
\* last two calls
C37_Witness ==
  /\ Done
  /\ call.fn = "signOut"
  /\ Len(log) >= 2
  /\ log[Len(log) - 1].op = "assign"
  /\ log[Len(log)].op = "reload"


-----------------------------------------------------------------------------
\* the configured prefix written the other way: with a trailing slash when
\* it has none, without it when it has one
OtherSpelling ==
  IF PrefixOf(route.options)[Len(PrefixOf(route.options))] = "/"
    THEN SubSeq(PrefixOf(route.options), 1, Len(PrefixOf(route.options)) - 1)
    ELSE PrefixOf(route.options) \o <<"/">>

\* C38: in the route handler a prefix written with a trailing slash is
\* equivalent to the same prefix without it: the request served would have
\* been handled under the other spelling exactly when it was handled under
\* the configured one; and a request whose path is the prefix itself, with
\* no further segment, is unhandled.
C38_TrailingSlashEquivalent ==
  RouteServed =>
    /\ (route.engineCalls # <<>>) = Handles(route.variant, OtherSpelling, RoutePath)
    /\ RoutePath \in {PrefixOf(route.options), OtherSpelling}
         /\ RoutePath[Len(RoutePath)] # "/" => Unhandled


-----------------------------------------------------------------------------
\* defineConfig applied, in the same environment, to what it returned
DefinedAgain ==
  IF cfg.earlier THEN defineConfigEarlier(cfg.returned)
  ELSE defineConfig(cfg.returned, cfg.env)

\* C39: defineConfig leaves the config object it is given as it was, and it
\* is idempotent for a fixed environment: applied to what it returned, it
\* returns the same config.
C39_PureAndIdempotent ==
  cfg.pc = "done" =>
    /\ cfg.after = cfg.config
    /\ DefinedAgain = cfg.returned

=============================================================================
